---------------------------- MODULE Spec2Model ----------------------------
(***************************************************************************)
(* A model of the cryptographic core of concrete: the negacyclic          *)
(* polynomial algebra of concrete-core (math/polynomial/polynomial.rs)    *)
(* the GLWE secret-key primitives (crypto/secret/glwe.rs) and the         *)
(* AES-128 counter-mode generator of concrete-csprng (software.rs).       *)
(*                                                                         *)
(* Polynomials are sequences of coefficients, index i holding the         *)
(* coefficient of degree i-1.  Torus words are integers modulo 2^BITS.    *)
(***************************************************************************)
EXTENDS Integers, Sequences, FiniteSets

VARIABLES
    poly,        \* the polynomial the operation is called on (`self`)
    lhs,         \* first operand of fill_with_wrapping_mul
    rhs,         \* second operand of fill_with_wrapping_mul
    coef_list,   \* PolynomialList of coefficients: [tensor, poly_size]
    bin_list,    \* PolynomialList of booleans: [tensor, poly_size]
    hist,        \* the calls made so far: <<[op, arg, pre]>>
    sk,          \* GlweSecretKey: [tensor, poly_size]
    ciphertext,  \* GlweList: [tensor, rlwe_size, poly_size]
    plaintexts,  \* PlaintextList to encrypt
    decryptions, \* PlaintextList the decryption writes
    noise,       \* the gaussian samples the encryption drew, in drawing order
    ggsw,        \* GgswCiphertext: [tensor, poly_size, rlwe_size, decomp_base_log]
    lwe_sk,      \* LweSecretKey made by into_lwe_secret_key: [tensor]
    generators,  \* the RandomGenerator objects, by identity
    entropy,     \* /dev/random: [available, reads]
    aes_call,    \* a call of aes_encrypt_many: [messages, cipher, output]
    overflow_checks, \* the build traps on integer overflow (debug profile)
    little_endian,   \* the byte order of the host
    panic        \* the panic message of the last call, "" if it returned

\* The operands of the polynomial calls.
operands == <<lhs, rhs, coef_list, bin_list>>

polyVars == <<poly, operands>>

glweVars == <<sk, ciphertext, plaintexts, decryptions, noise>>

csprngVars == <<generators, entropy, aes_call>>

platformVars == <<overflow_checks, little_endian>>

\* What the polynomial calls and the GLWE encryptions of SpecGlwe leave alone.
otherVars == <<ggsw, lwe_sk, csprngVars, platformVars, panic>>

vars == <<polyVars, glweVars, otherVars, hist>>

----------------------------------------------------------------------------
(* Bounds of the model.                                                    *)

\* Largest PolynomialSize explored.
MaxPolySize == 3

\* Largest number of polynomials in a PolynomialList.
MaxPolyCount == 2

\* Largest PolynomialSize of a GLWE key and ciphertext.
MaxGlwePolySize == 2

\* Largest GlweDimension (number of mask polynomials).
MaxGlweDimension == 2

\* Largest CiphertextCount of a GlweList.
MaxCiphertextCount == 2

\* Longest key tensor of which every value is drawn.
MaxExhaustiveKey == 4

\* Largest number of calls in one behaviour of the polynomial specifications.
MaxOps == 2

\* Largest MonomialDegree explored for a polynomial of size n: beyond two full
\* cycles.
MaxDegree(n) == 2 * n + 1

----------------------------------------------------------------------------
(* The word domain: the doc-tests of polynomial.rs run over u8.            *)

BITS == 8

Modulus == 2 ^ BITS

\* Coefficients the inputs are built from: zero, one and -1.
Coefs == {0, 1, Modulus - 1}

\* Values the output polynomial is allocated with before a call: zero, and the
\* 250 of the doc-tests.
Fills == {0, 250}

WrappingAdd(a, b) == (a + b) % Modulus

WrappingSub(a, b) == (a + Modulus - b) % Modulus

WrappingMul(a, b) == (a * b) % Modulus

WrappingNeg(a) == (Modulus - a) % Modulus

CastFromBool(b) == IF b THEN 1 ELSE 0

----------------------------------------------------------------------------
(* Polynomial                                                              *)

\* Polynomial::allocate(value, coef_count): vec![value; coef_count].
Allocate(value, coef_count) == [i \in 1 .. coef_count |-> value]

\* Polynomial::polynomial_size.
PolynomialSize(p) == Len(p)

\* ck_dim_eq!(a => b, c): every size on the right equals the one on the left.
CkDimEq(size, others) == \A o \in others : o = size

\* The double loop of fill_with_wrapping_mul from the pair number p on:
\* pair p is (lhsi, rhsi) with lhsi of degree p \div |rhs|, rhsi of degree
\* p % |rhs|, visited in the order of the two nested monomial iterators.
RECURSIVE MulLoop(_, _, _, _)
MulLoop(self, l, r, p) ==
    IF p >= Len(l) * Len(r) THEN self
    ELSE LET degree == Len(l) - 1
             li == p \div Len(r)
             ri == p % Len(r)
             target_degree == li + ri
             new == WrappingMul(l[li + 1], r[ri + 1])
         IN  IF target_degree <= degree
             THEN MulLoop([self EXCEPT ![target_degree + 1] = WrappingAdd(@, new)],
                          l, r, p + 1)
             ELSE MulLoop([self EXCEPT ![(target_degree % (degree + 1)) + 1] =
                                            WrappingSub(@, new)],
                          l, r, p + 1)

\* fill_with_wrapping_mul without the zeroing of the output.
FillWithWrappingMulNoZeroing(self, l, r) == MulLoop(self, l, r, 0)

\* Polynomial::fill_with_wrapping_mul: zero the output, then the double loop.
FillWithWrappingMul(self, l, r) ==
    MulLoop([i \in 1 .. Len(self) |-> 0], l, r, 0)

\* The double loop of update_with_wrapping_add_binary_mul from pair p on.
RECURSIVE AddBinaryMulLoop(_, _, _, _)
AddBinaryMulLoop(self, polynomial, bin_polynomial, p) ==
    IF p >= Len(polynomial) * Len(bin_polynomial) THEN self
    ELSE LET degree == Len(polynomial) - 1
             li == p \div Len(bin_polynomial)
             ri == p % Len(bin_polynomial)
             target_degree == li + ri
             binary_bit == CastFromBool(bin_polynomial[ri + 1])
             term == polynomial[li + 1] * binary_bit
         IN  IF target_degree <= degree
             THEN AddBinaryMulLoop(
                      [self EXCEPT ![target_degree + 1] = WrappingAdd(@, term)],
                      polynomial, bin_polynomial, p + 1)
             ELSE AddBinaryMulLoop(
                      [self EXCEPT ![(target_degree % (degree + 1)) + 1] =
                                       WrappingSub(@, term)],
                      polynomial, bin_polynomial, p + 1)

\* update_with_wrapping_add_binary_mul adding the folded terms it should
\* subtract: the cyclic product, without the negacyclic sign.
RECURSIVE CyclicAddBinaryMulLoop(_, _, _, _)
CyclicAddBinaryMulLoop(self, polynomial, bin_polynomial, p) ==
    IF p >= Len(polynomial) * Len(bin_polynomial) THEN self
    ELSE LET li == p \div Len(bin_polynomial)
             ri == p % Len(bin_polynomial)
             term == polynomial[li + 1] * CastFromBool(bin_polynomial[ri + 1])
         IN  CyclicAddBinaryMulLoop(
                 [self EXCEPT ![((li + ri) % Len(polynomial)) + 1] =
                                  WrappingAdd(@, term)],
                 polynomial, bin_polynomial, p + 1)

CyclicAddBinaryMul(self, polynomial, bin_polynomial) ==
    CyclicAddBinaryMulLoop(self, polynomial, bin_polynomial, 0)

\* Polynomial::update_with_wrapping_add_binary_mul.
UpdateWithWrappingAddBinaryMul(self, polynomial, bin_polynomial) ==
    AddBinaryMulLoop(self, polynomial, bin_polynomial, 0)

\* The double loop of update_with_wrapping_sub_binary_mul from pair p on.
RECURSIVE SubBinaryMulLoop(_, _, _, _)
SubBinaryMulLoop(self, polynomial, bin_polynomial, p) ==
    IF p >= Len(polynomial) * Len(bin_polynomial) THEN self
    ELSE LET degree == Len(polynomial) - 1
             li == p \div Len(bin_polynomial)
             ri == p % Len(bin_polynomial)
             target_degree == li + ri
             binary_bit == CastFromBool(bin_polynomial[ri + 1])
             term == polynomial[li + 1] * binary_bit
         IN  IF target_degree <= degree
             THEN SubBinaryMulLoop(
                      [self EXCEPT ![target_degree + 1] = WrappingSub(@, term)],
                      polynomial, bin_polynomial, p + 1)
             ELSE SubBinaryMulLoop(
                      [self EXCEPT ![(target_degree % (degree + 1)) + 1] =
                                       WrappingAdd(@, term)],
                      polynomial, bin_polynomial, p + 1)

\* update_with_wrapping_sub_binary_mul subtracting the folded terms too: the
\* signs of the out-of-range contributions not inverted.
RECURSIVE CyclicSubBinaryMulLoop(_, _, _, _)
CyclicSubBinaryMulLoop(self, polynomial, bin_polynomial, p) ==
    IF p >= Len(polynomial) * Len(bin_polynomial) THEN self
    ELSE LET li == p \div Len(bin_polynomial)
             ri == p % Len(bin_polynomial)
             term == polynomial[li + 1] * CastFromBool(bin_polynomial[ri + 1])
         IN  CyclicSubBinaryMulLoop(
                 [self EXCEPT ![((li + ri) % Len(polynomial)) + 1] =
                                  WrappingSub(@, term)],
                 polynomial, bin_polynomial, p + 1)

CyclicSubBinaryMul(self, polynomial, bin_polynomial) ==
    CyclicSubBinaryMulLoop(self, polynomial, bin_polynomial, 0)

\* Polynomial::update_with_wrapping_sub_binary_mul.
UpdateWithWrappingSubBinaryMul(self, polynomial, bin_polynomial) ==
    SubBinaryMulLoop(self, polynomial, bin_polynomial, 0)

\* Polynomial::fill_with_wrapping_binary_mul: zero, then the accumulating form.
FillWithWrappingBinaryMul(self, polynomial, bin_polynomial) ==
    UpdateWithWrappingAddBinaryMul([i \in 1 .. Len(self) |-> 0],
                                   polynomial, bin_polynomial)

\* PolynomialList::polynomial_count: the tensor length over the polynomial size.
PolynomialCount(list) == Len(list.tensor) \div list.poly_size

\* The i-th item (from 0) of PolynomialList::polynomial_iter.
GetPolynomial(list, i) ==
    SubSeq(list.tensor, i * list.poly_size + 1, (i + 1) * list.poly_size)

\* The number of pairs coef_list.polynomial_iter().zip(bin_list.polynomial_iter())
\* yields: zip stops with the shorter iterator.
ZipCount(a, b) == IF a <= b THEN a ELSE b

\* The loop of update_with_wrapping_add_binary_multisum from pair i on.
RECURSIVE AddBinaryMultisumLoop(_, _, _, _)
AddBinaryMultisumLoop(self, cl, bl, i) ==
    IF i >= ZipCount(PolynomialCount(cl), PolynomialCount(bl)) THEN self
    ELSE AddBinaryMultisumLoop(
             UpdateWithWrappingAddBinaryMul(self, GetPolynomial(cl, i),
                                            GetPolynomial(bl, i)),
             cl, bl, i + 1)

\* update_with_wrapping_add_binary_multisum leaving the first pair out.
AddBinaryMultisumFromSecond(self, cl, bl) ==
    AddBinaryMultisumLoop(self, cl, bl, 1)

\* Polynomial::update_with_wrapping_add_binary_multisum.
UpdateWithWrappingAddBinaryMultisum(self, cl, bl) ==
    AddBinaryMultisumLoop(self, cl, bl, 0)

\* The loop of update_with_wrapping_sub_binary_multisum from pair i on.
RECURSIVE SubBinaryMultisumLoop(_, _, _, _)
SubBinaryMultisumLoop(self, cl, bl, i) ==
    IF i >= ZipCount(PolynomialCount(cl), PolynomialCount(bl)) THEN self
    ELSE SubBinaryMultisumLoop(
             UpdateWithWrappingSubBinaryMul(self, GetPolynomial(cl, i),
                                            GetPolynomial(bl, i)),
             cl, bl, i + 1)

\* Polynomial::update_with_wrapping_sub_binary_multisum.
UpdateWithWrappingSubBinaryMultisum(self, cl, bl) ==
    SubBinaryMultisumLoop(self, cl, bl, 0)

\* Polynomial::update_with_wrapping_add: coefficient-wise wrapping add.
UpdateWithWrappingAdd(self, other) ==
    [i \in 1 .. Len(self) |-> WrappingAdd(self[i], other[i])]

\* Polynomial::update_with_wrapping_sub: coefficient-wise wrapping sub.
UpdateWithWrappingSub(self, other) ==
    [i \in 1 .. Len(self) |-> WrappingSub(self[i], other[i])]

\* slice::rotate_right(k): the element at index i moves to index (i + k) % len.
RotateRight(s, k) ==
    [i \in 1 .. Len(s) |-> s[((i - 1 + Len(s) - k) % Len(s)) + 1]]

\* slice::rotate_left(k): the element at index i moves to index (i - k) % len.
RotateLeft(s, k) ==
    [i \in 1 .. Len(s) |-> s[((i - 1 + k) % Len(s)) + 1]]

\* iter_mut().for_each(|a| *a = a.wrapping_neg()).
NegateAll(s) == [i \in 1 .. Len(s) |-> WrappingNeg(s[i])]

\* update_with_wrapping_monic_monomial_mul without the sign flip of odd cycles.
MonicMonomialMulNoCycleFlip(self, monomial_degree) ==
    LET remaining_degree == monomial_degree % Len(self)
        rotated == RotateRight(self, remaining_degree)
    IN  [i \in 1 .. Len(self) |->
            IF i <= remaining_degree THEN WrappingNeg(rotated[i]) ELSE rotated[i]]

\* Polynomial::update_with_wrapping_monic_monomial_mul.
UpdateWithWrappingMonicMonomialMul(self, monomial_degree) ==
    LET full_cycles_count == monomial_degree \div Len(self)
        flipped == IF full_cycles_count % 2 # 0 THEN NegateAll(self) ELSE self
        remaining_degree == monomial_degree % Len(self)
        rotated == RotateRight(flipped, remaining_degree)
    IN  [i \in 1 .. Len(self) |->
            IF i <= remaining_degree THEN WrappingNeg(rotated[i]) ELSE rotated[i]]

\* update_with_wrapping_unit_monomial_div negating the first coefficients
\* where the code negates the last ones.
UnitMonomialDivNegatesFirst(self, monomial_degree) ==
    LET full_cycles_count == monomial_degree \div Len(self)
        flipped == IF full_cycles_count % 2 # 0 THEN NegateAll(self) ELSE self
        remaining_degree == monomial_degree % Len(self)
        rotated == RotateLeft(flipped, remaining_degree)
    IN  [i \in 1 .. Len(self) |->
            IF i <= remaining_degree THEN WrappingNeg(rotated[i]) ELSE rotated[i]]

\* update_with_wrapping_unit_monomial_div without the sign flip of odd cycles.
UnitMonomialDivNoCycleFlip(self, monomial_degree) ==
    LET remaining_degree == monomial_degree % Len(self)
        rotated == RotateLeft(self, remaining_degree)
    IN  [i \in 1 .. Len(self) |->
            IF i > Len(self) - remaining_degree
            THEN WrappingNeg(rotated[i]) ELSE rotated[i]]

\* Polynomial::update_with_wrapping_unit_monomial_div.
UpdateWithWrappingUnitMonomialDiv(self, monomial_degree) ==
    LET full_cycles_count == monomial_degree \div Len(self)
        flipped == IF full_cycles_count % 2 # 0 THEN NegateAll(self) ELSE self
        remaining_degree == monomial_degree % Len(self)
        rotated == RotateLeft(flipped, remaining_degree)
    IN  [i \in 1 .. Len(self) |->
            IF i > Len(self) - remaining_degree
            THEN WrappingNeg(rotated[i]) ELSE rotated[i]]

----------------------------------------------------------------------------
(* Inputs.                                                                 *)

\* Every polynomial of size n over Coefs.
Polys(n) == [1 .. n -> Coefs]

\* Every binary polynomial of size n.
BinPolys(n) == [1 .. n -> BOOLEAN]

\* PolynomialList::from_container(tensor, poly_size).
PolynomialList(tensor, poly_size) == [tensor |-> tensor, poly_size |-> poly_size]

\* Sampled word vectors of length len: v[i] = (a*i + b) mod 2^q for a few
\* lines (a, b): constant 1, constant -1, 1,2,3.., -1,-2,-3.. and a ramp of
\* stride 37 that wraps.
SampleLines == {<<0, 1>>, <<0, Modulus - 1>>, <<1, 0>>, <<Modulus - 1, 0>>, <<37, 5>>}

Samples(lines, len) ==
    {[i \in 1 .. len |-> (ab[1] * i + ab[2]) % Modulus] : ab \in lines}

WordSamples(len) == Samples(SampleLines, len)

\* Sampled boolean vectors of length len.
BoolSamples(len) ==
    { [i \in 1 .. len |-> TRUE], [i \in 1 .. len |-> FALSE],
      [i \in 1 .. len |-> i % 2 = 1], [i \in 1 .. len |-> i % 2 = 0],
      [i \in 1 .. len |-> i = 1], [i \in 1 .. len |-> i = len] }

\* The tensors of the lists of count polynomials of size n: every one for a
\* single polynomial, sampled ones for longer lists.
CoefTensors(n, count) == IF count = 1 THEN Polys(n) ELSE WordSamples(n * count)

BinTensors(n, count) == IF count = 1 THEN BinPolys(n) ELSE BoolSamples(n * count)

\* The record a call leaves in hist.
Call(op, arg, pre) == [op |-> op, arg |-> arg, pre |-> pre]

Last(h) == h[Len(h)]

NoList == [tensor |-> <<>>, poly_size |-> 1]

\* No GLWE object is allocated.
NoGlwe ==
    /\ sk = NoList
    /\ ciphertext = [tensor |-> <<>>, rlwe_size |-> 1, poly_size |-> 1]
    /\ plaintexts = <<>>
    /\ decryptions = <<>>
    /\ noise = <<>>

\* No polynomial operand is allocated.
NoPolynomial ==
    /\ poly = <<>>
    /\ lhs = <<>>
    /\ rhs = <<>>
    /\ coef_list = NoList
    /\ bin_list = NoList

\* No GGSW ciphertext, LWE key, generator or AES call exists, and nothing has
\* panicked; the build is the release one on a little-endian host.
NoGgsw == ggsw = [tensor |-> <<>>, poly_size |-> 1, rlwe_size |-> 1, decomp_base_log |-> 1]

NoLweKey == lwe_sk = [tensor |-> <<>>]

NoCsprng ==
    /\ generators = <<>>
    /\ entropy = [available |-> TRUE, reads |-> 0]
    /\ aes_call = [messages |-> <<>>, cipher |-> <<>>, output |-> <<>>]

ReleaseBuild ==
    /\ overflow_checks = FALSE
    /\ little_endian = TRUE

NoOther ==
    /\ NoGgsw
    /\ NoLweKey
    /\ NoCsprng
    /\ ReleaseBuild
    /\ panic = ""

----------------------------------------------------------------------------
(* Monomial multiplication and division of one polynomial.                 *)

InitMonomial ==
    /\ \E n \in 1 .. MaxPolySize : poly \in Polys(n) \cup {<<1, 2, 3>>}
    /\ lhs = <<>>
    /\ rhs = <<>>
    /\ coef_list = NoList
    /\ bin_list = NoList
    /\ NoGlwe
    /\ NoOther
    /\ hist = <<>>

MonicMonomialMul ==
    /\ Len(hist) < MaxOps
    /\ \E d \in 0 .. MaxDegree(Len(poly)) :
          /\ poly' = UpdateWithWrappingMonicMonomialMul(poly, d)
          /\ hist' = Append(hist, Call("monic_monomial_mul", d, poly))
    /\ UNCHANGED <<operands, glweVars, otherVars>>

UnitMonomialDiv ==
    /\ Len(hist) < MaxOps
    /\ \E d \in 0 .. MaxDegree(Len(poly)) :
          /\ poly' = UpdateWithWrappingUnitMonomialDiv(poly, d)
          /\ hist' = Append(hist, Call("unit_monomial_div", d, poly))
    /\ UNCHANGED <<operands, glweVars, otherVars>>

NextMonomial == MonicMonomialMul \/ UnitMonomialDiv

SpecMonomial == InitMonomial /\ [][NextMonomial]_vars


----------------------------------------------------------------------------
(* The schoolbook product of two polynomials.                              *)

InitMul ==
    /\ \E n \in 1 .. MaxPolySize :
          \/ /\ poly \in {Allocate(c, n) : c \in Fills}
             /\ lhs \in Polys(n)
             /\ rhs \in Polys(n)
          \/ /\ poly = Allocate(0, 3)
             /\ lhs = <<4, 5, 0>>
             /\ rhs = <<7, 9, 0>>
    /\ coef_list = NoList
    /\ bin_list = NoList
    /\ NoGlwe
    /\ NoOther
    /\ hist = <<>>

FillMul ==
    /\ Len(hist) < MaxOps
    /\ CkDimEq(PolynomialSize(poly), {PolynomialSize(lhs), PolynomialSize(rhs)})
    /\ poly' = FillWithWrappingMul(poly, lhs, rhs)
    /\ hist' = Append(hist, Call("fill_with_wrapping_mul", 0, poly))
    /\ UNCHANGED <<operands, glweVars, otherVars>>

WrappingAddPoly ==
    /\ Len(hist) < MaxOps
    /\ CkDimEq(PolynomialSize(poly), {PolynomialSize(lhs)})
    /\ poly' = UpdateWithWrappingAdd(poly, lhs)
    /\ hist' = Append(hist, Call("update_with_wrapping_add", 0, poly))
    /\ UNCHANGED <<operands, glweVars, otherVars>>

WrappingSubPoly ==
    /\ Len(hist) < MaxOps
    /\ CkDimEq(PolynomialSize(poly), {PolynomialSize(rhs)})
    /\ poly' = UpdateWithWrappingSub(poly, rhs)
    /\ hist' = Append(hist, Call("update_with_wrapping_sub", 0, poly))
    /\ UNCHANGED <<operands, glweVars, otherVars>>

NextMul == FillMul \/ WrappingAddPoly \/ WrappingSubPoly

SpecMul == InitMul /\ [][NextMul]_vars

----------------------------------------------------------------------------
(* The products by binary polynomials: one polynomial, and the multisums   *)
(* over two lists.  The single products take the first polynomial of each  *)
(* list.                                                                   *)

InitBinary ==
    /\ \E n \in 1 .. MaxPolySize, count \in 0 .. MaxPolyCount :
          \/ /\ poly \in {Allocate(c, n) : c \in Fills}
             /\ coef_list \in {PolynomialList(t, n) : t \in CoefTensors(n, count)}
             /\ bin_list \in {PolynomialList(t, n) : t \in BinTensors(n, count)}
          \/ /\ poly = Allocate(250, 3)
             /\ coef_list = PolynomialList(<<100, 20, 3, 4, 5, 6>>, 3)
             /\ bin_list = PolynomialList(
                               <<FALSE, TRUE, TRUE, TRUE, FALSE, FALSE>>, 3)
    /\ lhs = <<>>
    /\ rhs = <<>>
    /\ NoGlwe
    /\ NoOther
    /\ hist = <<>>

\* Both lists hold a first polynomial, of the size of poly.
HasFirstPair ==
    /\ PolynomialCount(coef_list) >= 1
    /\ PolynomialCount(bin_list) >= 1
    /\ CkDimEq(PolynomialSize(poly), {PolynomialSize(GetPolynomial(coef_list, 0)),
                                      PolynomialSize(GetPolynomial(bin_list, 0))})

FillBinaryMul ==
    /\ Len(hist) < MaxOps
    /\ HasFirstPair
    /\ poly' = FillWithWrappingBinaryMul(poly, GetPolynomial(coef_list, 0),
                                         GetPolynomial(bin_list, 0))
    /\ hist' = Append(hist, Call("fill_with_wrapping_binary_mul", 0, poly))
    /\ UNCHANGED <<operands, glweVars, otherVars>>

AddBinaryMul ==
    /\ Len(hist) < MaxOps
    /\ HasFirstPair
    /\ poly' = UpdateWithWrappingAddBinaryMul(poly, GetPolynomial(coef_list, 0),
                                              GetPolynomial(bin_list, 0))
    /\ hist' = Append(hist, Call("update_with_wrapping_add_binary_mul", 0, poly))
    /\ UNCHANGED <<operands, glweVars, otherVars>>

SubBinaryMul ==
    /\ Len(hist) < MaxOps
    /\ HasFirstPair
    /\ poly' = UpdateWithWrappingSubBinaryMul(poly, GetPolynomial(coef_list, 0),
                                              GetPolynomial(bin_list, 0))
    /\ hist' = Append(hist, Call("update_with_wrapping_sub_binary_mul", 0, poly))
    /\ UNCHANGED <<operands, glweVars, otherVars>>

\* Every pair of the zip passes the size check of the single product.
PairsMatch ==
    \A i \in 0 .. (ZipCount(PolynomialCount(coef_list), PolynomialCount(bin_list)) - 1) :
        CkDimEq(PolynomialSize(poly), {PolynomialSize(GetPolynomial(coef_list, i)),
                                       PolynomialSize(GetPolynomial(bin_list, i))})

AddBinaryMultisum ==
    /\ Len(hist) < MaxOps
    /\ PairsMatch
    /\ poly' = UpdateWithWrappingAddBinaryMultisum(poly, coef_list, bin_list)
    /\ hist' = Append(hist, Call("update_with_wrapping_add_binary_multisum", 0, poly))
    /\ UNCHANGED <<operands, glweVars, otherVars>>

SubBinaryMultisum ==
    /\ Len(hist) < MaxOps
    /\ PairsMatch
    /\ poly' = UpdateWithWrappingSubBinaryMultisum(poly, coef_list, bin_list)
    /\ hist' = Append(hist, Call("update_with_wrapping_sub_binary_multisum", 0, poly))
    /\ UNCHANGED <<operands, glweVars, otherVars>>

NextBinary ==
    \/ FillBinaryMul
    \/ AddBinaryMul
    \/ SubBinaryMul
    \/ AddBinaryMultisum
    \/ SubBinaryMultisum

SpecBinary == InitBinary /\ [][NextBinary]_vars

----------------------------------------------------------------------------
(* GlweSecretKey, GlweCiphertext, GlweList                                 *)

\* GlweSecretKey::key_size: the tensor length over the polynomial size.
KeySize(key) == Len(key.tensor) \div key.poly_size

\* GlweSecretKey::as_polynomial_list.
AsPolynomialList(key) == PolynomialList(key.tensor, key.poly_size)

\* GlweList::allocate(value, poly_size, glwe_dimension, ciphertext_number).
AllocateGlweList(value, poly_size, glwe_dimension, ciphertext_number) ==
    [tensor |-> [i \in 1 .. (ciphertext_number * (glwe_dimension + 1) * poly_size)
                    |-> value],
     rlwe_size |-> glwe_dimension + 1,
     poly_size |-> poly_size]

\* GlweList::ciphertext_count.
CiphertextCount(list) == Len(list.tensor) \div (list.rlwe_size * list.poly_size)

\* GlweList::glwe_dimension.
GlweDimension(list) == list.rlwe_size - 1

\* The tensor of the i-th item (from 0) of GlweList::ciphertext_iter: the
\* ciphertexts are stored one after the other.
GetCiphertext(list, i) ==
    SubSeq(list.tensor, i * list.rlwe_size * list.poly_size + 1,
           (i + 1) * list.rlwe_size * list.poly_size)

\* GlweCiphertext::get_body, of a ciphertext tensor ct of polynomial size n: the
\* last polynomial.
GetBody(ct, n) == SubSeq(ct, Len(ct) - n + 1, Len(ct))

\* GlweCiphertext::get_mask as a polynomial list: the polynomials before the
\* body.
GetMask(ct, n) == PolynomialList(SubSeq(ct, 1, Len(ct) - n), n)

\* The i-th item (from 0) of PlaintextList::sublist_iter(count).
GetSublist(list, count, i) == SubSeq(list, i * count + 1, (i + 1) * count)

\* encrypt_zero_glwe writing only the drawn mask and noise: the sum of the
\* products by the key left out.
EncryptZeroGlweTrivial(key, ct, n, gaussian, uniform) == uniform \o gaussian

\* GlweSecretKey::encrypt_zero_glwe on the ciphertext tensor ct of polynomial
\* size n, the gaussian fill of the body drawing `gaussian` and the uniform
\* fill of the masks drawing `uniform`.
EncryptZeroGlwe(key, ct, n, gaussian, uniform) ==
    LET masks == PolynomialList(uniform, n)
        body == UpdateWithWrappingAddBinaryMultisum(gaussian, masks,
                                                    AsPolynomialList(key))
    IN  masks.tensor \o body

\* GlweSecretKey::encrypt_glwe, with the same draws.
EncryptGlwe(key, ct, n, encoded, gaussian, uniform) ==
    LET masks == PolynomialList(uniform, n)
        body == UpdateWithWrappingAddBinaryMultisum(gaussian, masks,
                                                    AsPolynomialList(key))
    IN  masks.tensor \o UpdateWithWrappingAdd(body, encoded)

\* decrypt_glwe without the copy of the body: the products are subtracted from
\* what the output held.
DecryptGlweKeepingOutput(key, encoded, ct, n) ==
    UpdateWithWrappingSubBinaryMultisum(encoded, GetMask(ct, n),
                                        AsPolynomialList(key))

\* decrypt_glwe adding the products by the key where the code subtracts them.
DecryptGlweAdding(key, encoded, ct, n) ==
    UpdateWithWrappingAddBinaryMultisum(GetBody(ct, n), GetMask(ct, n),
                                        AsPolynomialList(key))

\* GlweSecretKey::decrypt_glwe: the body copied into the output, then the
\* products of the masks by the key subtracted.
DecryptGlwe(key, encoded, ct, n) ==
    UpdateWithWrappingSubBinaryMultisum(GetBody(ct, n), GetMask(ct, n),
                                        AsPolynomialList(key))

\* The loop of encrypt_glwe_list from pair i on, over the tensor of the list:
\* the i-th ciphertext with the i-th sublist, and the draws made for it.
RECURSIVE EncryptGlweListLoop(_, _, _, _, _, _)
EncryptGlweListLoop(key, list, encoded, gaussian, uniform, i) ==
    LET n == list.poly_size
        mask_len == GlweDimension(list) * n
    IN  IF i >= ZipCount(CiphertextCount(list), Len(encoded) \div n) THEN <<>>
        ELSE EncryptGlwe(key, GetCiphertext(list, i), n,
                         GetSublist(encoded, n, i),
                         GetSublist(gaussian, n, i),
                         GetSublist(uniform, mask_len, i))
             \o EncryptGlweListLoop(key, list, encoded, gaussian, uniform, i + 1)

\* encrypt_glwe_list encrypting the first sublist into every ciphertext.
RECURSIVE EncryptFirstSublistLoop(_, _, _, _, _, _)
EncryptFirstSublistLoop(key, list, encoded, gaussian, uniform, i) ==
    LET n == list.poly_size
        mask_len == GlweDimension(list) * n
    IN  IF i >= ZipCount(CiphertextCount(list), Len(encoded) \div n) THEN <<>>
        ELSE EncryptGlwe(key, GetCiphertext(list, i), n,
                         GetSublist(encoded, n, 0),
                         GetSublist(gaussian, n, i),
                         GetSublist(uniform, mask_len, i))
             \o EncryptFirstSublistLoop(key, list, encoded, gaussian, uniform, i + 1)

EncryptGlweListFirstSublist(key, list, encoded, gaussian, uniform) ==
    [list EXCEPT !.tensor =
        EncryptFirstSublistLoop(key, list, encoded, gaussian, uniform, 0)]

\* GlweSecretKey::encrypt_glwe_list: the list after the call.
EncryptGlweList(key, list, encoded, gaussian, uniform) ==
    [list EXCEPT !.tensor =
        EncryptGlweListLoop(key, list, encoded, gaussian, uniform, 0)]

\* The loop of decrypt_glwe_list from pair i on: the i-th sublist of the
\* output written from the i-th ciphertext.
RECURSIVE DecryptGlweListLoop(_, _, _, _)
DecryptGlweListLoop(key, encoded, list, i) ==
    LET n == list.poly_size
    IN  IF i >= ZipCount(CiphertextCount(list), Len(encoded) \div n) THEN <<>>
        ELSE DecryptGlwe(key, GetSublist(encoded, n, i), GetCiphertext(list, i), n)
             \o DecryptGlweListLoop(key, encoded, list, i + 1)

\* GlweSecretKey::decrypt_glwe_list: the output list after the call.
DecryptGlweList(key, encoded, list) == DecryptGlweListLoop(key, encoded, list, 0)

----------------------------------------------------------------------------
(* GLWE encryption and decryption, called in the order of test_glwe: the   *)
(* key, the plaintexts and a zeroed ciphertext list are allocated, one     *)
(* encryption is made, then one decryption.                                *)

\* The gaussian samples drawn: none (a deviation of zero), small positive
\* ones, small negative ones.
NoiseLines == {<<0, 0>>, <<1, 0>>, <<Modulus - 1, 0>>}

\* The uniform samples drawn for the masks.
MaskLines == {<<0, Modulus - 1>>, <<1, 0>>, <<37, 5>>}

\* The plaintexts encrypted.
PlaintextLines == {<<0, 0>>, <<10, 0>>, <<37, 5>>}

\* The tensors of the keys of len bits: every one up to MaxExhaustiveKey bits,
\* sampled ones for longer keys.
KeyTensors(len) == IF len <= MaxExhaustiveKey THEN BinPolys(len) ELSE BoolSamples(len)

InitGlwe ==
    /\ \E n \in 1 .. MaxGlwePolySize, k \in 1 .. MaxGlweDimension,
          m \in 0 .. MaxCiphertextCount :
          /\ sk \in {PolynomialList(t, n) : t \in KeyTensors(k * n)}
          /\ plaintexts \in Samples(PlaintextLines, m * n)
          /\ ciphertext = AllocateGlweList(0, n, k, m)
          /\ decryptions \in {Allocate(c, m * n) : c \in Fills}
    /\ noise = <<>>
    /\ NoPolynomial
    /\ NoOther
    /\ hist = <<>>

\* The list holds one ciphertext, the one the single-ciphertext calls take.
OneCiphertext == CiphertextCount(ciphertext) = 1

\* The size checks of the products and of the sum of encrypt_glwe.
EncryptDims ==
    /\ CkDimEq(ciphertext.poly_size, {sk.poly_size})
    /\ CkDimEq(ciphertext.poly_size, {Len(plaintexts)})

EncryptGlweCall ==
    /\ hist = <<>>
    /\ OneCiphertext
    /\ EncryptDims
    /\ \E gaussian \in Samples(NoiseLines, ciphertext.poly_size),
          uniform \in Samples(MaskLines, GlweDimension(ciphertext) * ciphertext.poly_size) :
          /\ ciphertext' = [ciphertext EXCEPT !.tensor =
                                EncryptGlwe(sk, GetCiphertext(ciphertext, 0),
                                            ciphertext.poly_size, plaintexts,
                                            gaussian, uniform)]
          /\ noise' = gaussian
    /\ hist' = Append(hist, Call("encrypt_glwe", 0, <<>>))
    /\ UNCHANGED <<polyVars, otherVars, sk, plaintexts, decryptions>>

EncryptZeroGlweCall ==
    /\ hist = <<>>
    /\ OneCiphertext
    /\ CkDimEq(ciphertext.poly_size, {sk.poly_size})
    /\ \E gaussian \in Samples(NoiseLines, ciphertext.poly_size),
          uniform \in Samples(MaskLines, GlweDimension(ciphertext) * ciphertext.poly_size) :
          /\ ciphertext' = [ciphertext EXCEPT !.tensor =
                                EncryptZeroGlwe(sk, GetCiphertext(ciphertext, 0),
                                                ciphertext.poly_size,
                                                gaussian, uniform)]
          /\ noise' = gaussian
    /\ hist' = Append(hist, Call("encrypt_zero_glwe", 0, <<>>))
    /\ UNCHANGED <<polyVars, otherVars, sk, plaintexts, decryptions>>

\* The two checks at the head of encrypt_glwe_list and decrypt_glwe_list.
ListDims(list, encoded, key) ==
    /\ CkDimEq(CiphertextCount(list) * list.poly_size, {Len(encoded)})
    /\ CkDimEq(GlweDimension(list), {KeySize(key)})

EncryptGlweListCall ==
    /\ hist = <<>>
    /\ ListDims(ciphertext, plaintexts, sk)
    /\ CkDimEq(ciphertext.poly_size, {sk.poly_size})
    /\ \E gaussian \in Samples(NoiseLines,
                                 CiphertextCount(ciphertext) * ciphertext.poly_size),
          uniform \in Samples(MaskLines,
                                CiphertextCount(ciphertext) * GlweDimension(ciphertext)
                                    * ciphertext.poly_size) :
          /\ ciphertext' = EncryptGlweList(sk, ciphertext, plaintexts, gaussian, uniform)
          /\ noise' = gaussian
    /\ hist' = Append(hist, Call("encrypt_glwe_list", 0, <<>>))
    /\ UNCHANGED <<polyVars, otherVars, sk, plaintexts, decryptions>>

DecryptGlweCall ==
    /\ Len(hist) = 1
    /\ OneCiphertext
    /\ CkDimEq(Len(decryptions), {ciphertext.poly_size})
    /\ CkDimEq(ciphertext.poly_size, {sk.poly_size})
    /\ decryptions' = DecryptGlwe(sk, decryptions, GetCiphertext(ciphertext, 0),
                                  ciphertext.poly_size)
    /\ hist' = Append(hist, Call("decrypt_glwe", 0, decryptions))
    /\ UNCHANGED <<polyVars, otherVars, sk, ciphertext, plaintexts, noise>>

DecryptGlweListCall ==
    /\ Len(hist) = 1
    /\ ListDims(ciphertext, decryptions, sk)
    /\ CkDimEq(ciphertext.poly_size, {sk.poly_size})
    /\ decryptions' = DecryptGlweList(sk, decryptions, ciphertext)
    /\ hist' = Append(hist, Call("decrypt_glwe_list", 0, decryptions))
    /\ UNCHANGED <<polyVars, otherVars, sk, ciphertext, plaintexts, noise>>

NextGlwe ==
    \/ EncryptGlweCall
    \/ EncryptZeroGlweCall
    \/ EncryptGlweListCall
    \/ DecryptGlweCall
    \/ DecryptGlweListCall

SpecGlwe == InitGlwe /\ [][NextGlwe]_vars

----------------------------------------------------------------------------
(* The GLWE calls on operands of any shapes: a call returns, or panics on  *)
(* a failed ck_dim_eq! leaving what it wrote before.  Each operator gives  *)
(* the tensor written and the panic message, "" for a call that returned.  *)

\* The message of a failed ck_dim_eq!.
DimensionMismatch == "dimension mismatch"

Outcome(tensor, message) == [tensor |-> tensor, panic |-> message]

\* The products of a multisum of the masks of a ciphertext of polynomial size
\* n by the key fail their ck_dim_eq!: there is a pair, and the polynomials
\* of the key are not of size n.
ProductsMismatch(key, uniform, n) ==
    /\ ZipCount(PolynomialCount(PolynomialList(uniform, n)),
                PolynomialCount(AsPolynomialList(key))) >= 1
    /\ ~CkDimEq(n, {key.poly_size})

\* GlweSecretKey::encrypt_zero_glwe: the fills, then the multisum over the
\* zipped masks and key polynomials.
EncryptZeroGlweChecked(key, ct, n, gaussian, uniform) ==
    IF ProductsMismatch(key, uniform, n)
    THEN Outcome(uniform \o gaussian, DimensionMismatch)
    ELSE Outcome(EncryptZeroGlwe(key, ct, n, gaussian, uniform), "")

\* GlweSecretKey::encrypt_glwe: as encrypt_zero_glwe, then the sum with the
\* plaintexts, which checks their count.
EncryptGlweChecked(key, ct, n, encoded, gaussian, uniform) ==
    LET zero == EncryptZeroGlweChecked(key, ct, n, gaussian, uniform)
    IN  IF zero.panic # "" THEN zero
        ELSE IF ~CkDimEq(n, {Len(encoded)})
        THEN Outcome(zero.tensor, DimensionMismatch)
        ELSE Outcome(EncryptGlwe(key, ct, n, encoded, gaussian, uniform), "")

\* GlweSecretKey::decrypt_glwe: the check of the output size, the copy of the
\* body, then the multisum over the zipped masks and key polynomials.
DecryptGlweChecked(key, encoded, ct, n) ==
    IF ~CkDimEq(Len(encoded), {n}) THEN Outcome(encoded, DimensionMismatch)
    ELSE IF ProductsMismatch(key, GetMask(ct, n).tensor, n)
    THEN Outcome(GetBody(ct, n), DimensionMismatch)
    ELSE Outcome(DecryptGlwe(key, encoded, ct, n), "")

\* The ciphertexts of the list from the i-th on, as they are.
CiphertextsFrom(list, i) ==
    SubSeq(list.tensor, i * list.rlwe_size * list.poly_size + 1, Len(list.tensor))

\* The loop of encrypt_glwe_list from pair i on, `done` being the ciphertexts
\* written so far: it stops at the first call of encrypt_glwe that panics.
\* started counts the calls of encrypt_glwe made.
RECURSIVE EncryptListCheckedLoop(_, _, _, _, _, _, _)
EncryptListCheckedLoop(key, list, encoded, gaussian, uniform, i, done) ==
    LET n == list.poly_size
        mask_len == GlweDimension(list) * n
    IN  IF i >= ZipCount(CiphertextCount(list), Len(encoded) \div n)
        THEN [tensor |-> done \o CiphertextsFrom(list, i), panic |-> "", started |-> i]
        ELSE LET one == EncryptGlweChecked(key, GetCiphertext(list, i), n,
                                           GetSublist(encoded, n, i),
                                           GetSublist(gaussian, n, i),
                                           GetSublist(uniform, mask_len, i))
             IN  IF one.panic # ""
                 THEN [tensor |-> done \o one.tensor \o CiphertextsFrom(list, i + 1),
                       panic |-> one.panic, started |-> i + 1]
                 ELSE EncryptListCheckedLoop(key, list, encoded, gaussian, uniform,
                                             i + 1, done \o one.tensor)

\* The checks of the list calls refusing a list of no ciphertext.
ListDimsHoldNonEmpty(key, list, encoded) ==
    /\ CiphertextCount(list) >= 1
    /\ CkDimEq(CiphertextCount(list) * list.poly_size, {Len(encoded)})
    /\ CkDimEq(GlweDimension(list), {KeySize(key)})

\* The two checks at the head of encrypt_glwe_list and decrypt_glwe_list.
ListDimsHold(key, list, encoded) ==
    /\ CkDimEq(CiphertextCount(list) * list.poly_size, {Len(encoded)})
    /\ CkDimEq(GlweDimension(list), {KeySize(key)})

\* encrypt_glwe_list without the checks at its head.
EncryptGlweListUnchecked(key, list, encoded, gaussian, uniform) ==
    EncryptListCheckedLoop(key, list, encoded, gaussian, uniform, 0, <<>>)

\* GlweSecretKey::encrypt_glwe_list.
EncryptGlweListChecked(key, list, encoded, gaussian, uniform) ==
    IF ~ListDimsHold(key, list, encoded)
    THEN [tensor |-> list.tensor, panic |-> DimensionMismatch, started |-> 0]
    ELSE EncryptListCheckedLoop(key, list, encoded, gaussian, uniform, 0, <<>>)

\* The loop of decrypt_glwe_list from pair i on, `done` being the sublists
\* written so far.
RECURSIVE DecryptListCheckedLoop(_, _, _, _, _)
DecryptListCheckedLoop(key, encoded, list, i, done) ==
    LET n == list.poly_size
    IN  IF i >= ZipCount(CiphertextCount(list), Len(encoded) \div n)
        THEN Outcome(done \o SubSeq(encoded, i * n + 1, Len(encoded)), "")
        ELSE LET one == DecryptGlweChecked(key, GetSublist(encoded, n, i),
                                           GetCiphertext(list, i), n)
             IN  IF one.panic # ""
                 THEN Outcome(done \o one.tensor
                                   \o SubSeq(encoded, (i + 1) * n + 1, Len(encoded)),
                              one.panic)
                 ELSE DecryptListCheckedLoop(key, encoded, list, i + 1,
                                             done \o one.tensor)

\* GlweSecretKey::decrypt_glwe_list.
DecryptGlweListChecked(key, encoded, list) ==
    IF ~ListDimsHold(key, list, encoded) THEN Outcome(encoded, DimensionMismatch)
    ELSE DecryptListCheckedLoop(key, encoded, list, 0, <<>>)

----------------------------------------------------------------------------
(* At most one encryption then one decryption, on a key, a ciphertext     *)
(* list, a plaintext list and an output list whose shapes need not fit;    *)
(* a call that panicked ends the run.                                      *)

\* The gaussian and the uniform samples drawn.
DimsNoiseLines == {<<1, 0>>}

DimsMaskLines == {<<0, Modulus - 1>>, <<37, 5>>}

\* The lengths of a plaintext list given for count ciphertexts of size n.
PlaintextLengths(count, n) == {count * n, count * n + 1, n}

InitGlweDims ==
    /\ \E n \in 1 .. MaxGlwePolySize, k \in 1 .. MaxGlweDimension,
          m \in 0 .. MaxCiphertextCount,
          key_n \in 1 .. MaxGlwePolySize, key_k \in 1 .. MaxGlweDimension :
          /\ sk \in {PolynomialList(t, key_n) : t \in BoolSamples(key_k * key_n)}
          /\ \E len \in PlaintextLengths(m, n) :
                plaintexts \in Samples({<<10, 0>>}, len)
          /\ ciphertext = AllocateGlweList(0, n, k, m)
          /\ \E len \in {m * n, m * n + 1}, c \in Fills :
                decryptions = Allocate(c, len)
    /\ noise = <<>>
    /\ panic = ""
    /\ NoPolynomial
    /\ NoGgsw
    /\ NoLweKey
    /\ NoCsprng
    /\ ReleaseBuild
    /\ hist = <<>>

\* The draws of an encryption of `count` ciphertexts of the list.
GaussianDraws(count) == Samples(DimsNoiseLines, count * ciphertext.poly_size)

UniformDraws(count) ==
    Samples(DimsMaskLines, count * GlweDimension(ciphertext) * ciphertext.poly_size)

\* A call on the single ciphertext of the list; hist records the words the
\* call drew and the ciphertext before it.
EncryptGlweAnyShape ==
    /\ hist = <<>>
    /\ panic = ""
    /\ OneCiphertext
    /\ \E gaussian \in GaussianDraws(1), uniform \in UniformDraws(1) :
          LET out == EncryptGlweChecked(sk, GetCiphertext(ciphertext, 0),
                                        ciphertext.poly_size, plaintexts,
                                        gaussian, uniform)
          IN  /\ ciphertext' = [ciphertext EXCEPT !.tensor = out.tensor]
              /\ noise' = gaussian
              /\ panic' = out.panic
              /\ hist' = Append(hist, Call("encrypt_glwe",
                                           Len(gaussian) + Len(uniform),
                                           ciphertext.tensor))
    /\ UNCHANGED <<polyVars, sk, plaintexts, decryptions, ggsw, lwe_sk,
                   csprngVars, platformVars>>

EncryptZeroGlweAnyShape ==
    /\ hist = <<>>
    /\ panic = ""
    /\ OneCiphertext
    /\ \E gaussian \in GaussianDraws(1), uniform \in UniformDraws(1) :
          LET out == EncryptZeroGlweChecked(sk, GetCiphertext(ciphertext, 0),
                                            ciphertext.poly_size, gaussian, uniform)
          IN  /\ ciphertext' = [ciphertext EXCEPT !.tensor = out.tensor]
              /\ noise' = gaussian
              /\ panic' = out.panic
              /\ hist' = Append(hist, Call("encrypt_zero_glwe",
                                           Len(gaussian) + Len(uniform),
                                           ciphertext.tensor))
    /\ UNCHANGED <<polyVars, sk, plaintexts, decryptions, ggsw, lwe_sk,
                   csprngVars, platformVars>>

EncryptGlweListAnyShape ==
    /\ hist = <<>>
    /\ panic = ""
    /\ \E gaussian \in GaussianDraws(CiphertextCount(ciphertext)),
          uniform \in UniformDraws(CiphertextCount(ciphertext)) :
          LET out == EncryptGlweListChecked(sk, ciphertext, plaintexts,
                                            gaussian, uniform)
          IN  /\ ciphertext' = [ciphertext EXCEPT !.tensor = out.tensor]
              /\ noise' = SubSeq(gaussian, 1, out.started * ciphertext.poly_size)
              /\ panic' = out.panic
              /\ hist' = Append(hist, Call("encrypt_glwe_list",
                                           out.started * ciphertext.rlwe_size
                                               * ciphertext.poly_size,
                                           ciphertext.tensor))
    /\ UNCHANGED <<polyVars, sk, plaintexts, decryptions, ggsw, lwe_sk,
                   csprngVars, platformVars>>

DecryptGlweAnyShape ==
    /\ Len(hist) <= 1
    /\ panic = ""
    /\ OneCiphertext
    /\ LET out == DecryptGlweChecked(sk, decryptions, GetCiphertext(ciphertext, 0),
                                     ciphertext.poly_size)
       IN  /\ decryptions' = out.tensor
           /\ panic' = out.panic
    /\ hist' = Append(hist, Call("decrypt_glwe", 0, decryptions))
    /\ UNCHANGED <<polyVars, sk, ciphertext, plaintexts, noise, ggsw, lwe_sk,
                   csprngVars, platformVars>>

DecryptGlweListAnyShape ==
    /\ Len(hist) <= 1
    /\ panic = ""
    /\ LET out == DecryptGlweListChecked(sk, decryptions, ciphertext)
       IN  /\ decryptions' = out.tensor
           /\ panic' = out.panic
    /\ hist' = Append(hist, Call("decrypt_glwe_list", 0, decryptions))
    /\ UNCHANGED <<polyVars, sk, ciphertext, plaintexts, noise, ggsw, lwe_sk,
                   csprngVars, platformVars>>

NextGlweDims ==
    \/ EncryptGlweAnyShape
    \/ EncryptZeroGlweAnyShape
    \/ EncryptGlweListAnyShape
    \/ DecryptGlweAnyShape
    \/ DecryptGlweListAnyShape

SpecGlweDims == InitGlweDims /\ [][NextGlweDims]_vars

----------------------------------------------------------------------------
(* The multisums on two lists of any counts: the call returns, or panics   *)
(* on the ck_dim_eq! of its first product, before anything is written.     *)

\* Polynomial::update_with_wrapping_add_binary_multisum: the products of the
\* zipped pairs, each checking the sizes of its operands.
AddBinaryMultisumChecked(p, coefs, bins) ==
    IF /\ ZipCount(PolynomialCount(coefs), PolynomialCount(bins)) >= 1
       /\ ~CkDimEq(PolynomialSize(p), {coefs.poly_size, bins.poly_size})
    THEN Outcome(p, DimensionMismatch)
    ELSE Outcome(UpdateWithWrappingAddBinaryMultisum(p, coefs, bins), "")

\* Polynomial::update_with_wrapping_sub_binary_multisum.
SubBinaryMultisumChecked(p, coefs, bins) ==
    IF /\ ZipCount(PolynomialCount(coefs), PolynomialCount(bins)) >= 1
       /\ ~CkDimEq(PolynomialSize(p), {coefs.poly_size, bins.poly_size})
    THEN Outcome(p, DimensionMismatch)
    ELSE Outcome(UpdateWithWrappingSubBinaryMultisum(p, coefs, bins), "")

InitMultisum ==
    /\ \E n \in 1 .. MaxPolySize, bin_n \in 1 .. MaxPolySize,
          count \in 0 .. MaxPolyCount, bin_count \in 0 .. MaxPolyCount :
          /\ poly \in {Allocate(c, n) : c \in Fills}
          /\ coef_list \in {PolynomialList(t, n) : t \in WordSamples(n * count)}
          /\ bin_list \in {PolynomialList(t, bin_n) : t \in BoolSamples(bin_n * bin_count)}
    /\ lhs = <<>>
    /\ rhs = <<>>
    /\ NoGlwe
    /\ NoOther
    /\ hist = <<>>

AddBinaryMultisumAnyCount ==
    /\ Len(hist) < MaxOps
    /\ panic = ""
    /\ LET out == AddBinaryMultisumChecked(poly, coef_list, bin_list)
       IN  /\ poly' = out.tensor
           /\ panic' = out.panic
    /\ hist' = Append(hist, Call("update_with_wrapping_add_binary_multisum", 0, poly))
    /\ UNCHANGED <<operands, glweVars, ggsw, lwe_sk, csprngVars, platformVars>>

SubBinaryMultisumAnyCount ==
    /\ Len(hist) < MaxOps
    /\ panic = ""
    /\ LET out == SubBinaryMultisumChecked(poly, coef_list, bin_list)
       IN  /\ poly' = out.tensor
           /\ panic' = out.panic
    /\ hist' = Append(hist, Call("update_with_wrapping_sub_binary_multisum", 0, poly))
    /\ UNCHANGED <<operands, glweVars, ggsw, lwe_sk, csprngVars, platformVars>>

NextMultisum ==
    \/ AddBinaryMultisumAnyCount
    \/ SubBinaryMultisumAnyCount

SpecMultisum == InitMultisum /\ [][NextMultisum]_vars

----------------------------------------------------------------------------
(* GGSW encryption of a constant: the level matrices are filled with       *)
(* encryptions of zero, then the gadget value of each level is added on    *)
(* the diagonal of its matrix.                                             *)

MaxLevelCount == 2

MaxBaseLog == 5

\* The messages of the arithmetic checks of a build with overflow checks.
SubtractOverflow == "attempt to subtract with overflow"

ShiftOverflow == "attempt to shift left with overflow"

MultiplyOverflow == "attempt to multiply with overflow"

\* GgswCiphertext::allocate.
AllocateGgsw(value, poly_size, rlwe_size, decomp_level, decomp_base_log) ==
    [tensor |-> [i \in 1 .. (decomp_level * rlwe_size * rlwe_size * poly_size)
                    |-> value],
     poly_size |-> poly_size,
     rlwe_size |-> rlwe_size,
     decomp_base_log |-> decomp_base_log]

\* GgswCiphertext::decomposition_level_count.
DecompositionLevelCount(g) ==
    Len(g.tensor) \div (g.rlwe_size * g.rlwe_size * g.poly_size)

\* GgswCiphertext::as_mut_glwe_list: the same tensor, as a list of GLWE
\* ciphertexts.
AsGlweList(g) ==
    [tensor |-> g.tensor, rlwe_size |-> g.rlwe_size, poly_size |-> g.poly_size]

\* GlweSecretKey::encrypt_zero_glwe_list from ciphertext i on: encrypt_zero_glwe
\* on each ciphertext of the list in turn.
RECURSIVE EncryptZeroGlweListFrom(_, _, _, _, _)
EncryptZeroGlweListFrom(key, list, gaussian, uniform, i) ==
    IF i >= CiphertextCount(list) THEN <<>>
    ELSE EncryptZeroGlwe(key, GetCiphertext(list, i), list.poly_size,
                         GetSublist(gaussian, list.poly_size, i),
                         GetSublist(uniform, GlweDimension(list) * list.poly_size, i))
         \o EncryptZeroGlweListFrom(key, list, gaussian, uniform, i + 1)

EncryptZeroGlweList(key, list, gaussian, uniform) ==
    EncryptZeroGlweListFrom(key, list, gaussian, uniform, 0)

\* The first loop of trivial_encrypt_constant_ggsw from ciphertext i on: the
\* mask filled with zero, the body with the noise drawn.
RECURSIVE TrivialZeroListFrom(_, _, _)
TrivialZeroListFrom(list, gaussian, i) ==
    IF i >= CiphertextCount(list) THEN <<>>
    ELSE Allocate(0, GlweDimension(list) * list.poly_size)
         \o GetSublist(gaussian, list.poly_size, i)
         \o TrivialZeroListFrom(list, gaussian, i + 1)

TrivialZeroList(list, gaussian) == TrivialZeroListFrom(list, gaussian, 0)

Value(v) == [trap |-> "", value |-> v]

Trap(message) == [trap |-> message, value |-> 0]

\* Scalar::ONE << (BITS - base_log * (level + 1)), in usize then in Scalar: a
\* build with overflow checks traps on a negative difference and on a shift
\* by BITS or more, a build without them wraps the difference and keeps the
\* low bits of the shift amount.
ShiftedOne(base_log, level) ==
    LET used == base_log * (level + 1)
    IN  IF used > BITS /\ overflow_checks THEN Trap(SubtractOverflow)
        ELSE IF BITS - used \in 0 .. BITS - 1 THEN Value(2 ^ (BITS - used))
        ELSE IF overflow_checks THEN Trap(ShiftOverflow)
        ELSE Value(2 ^ ((BITS - used) % BITS))

\* encoded.0 * (Scalar::ONE << ...): the product traps in a build with
\* overflow checks when it does not fit the word.
Decomposition(mu, base_log, level) ==
    LET one == ShiftedOne(base_log, level)
    IN  IF one.trap # "" THEN one
        ELSE IF overflow_checks /\ mu * one.value >= Modulus
        THEN Trap(MultiplyOverflow)
        ELSE Value((mu * one.value) % Modulus)

\* The place of the first coefficient of the body of the row, whatever the
\* index.
FirstCoefOfBody(g, level, row, index) ==
    level * (g.rlwe_size * g.rlwe_size * g.poly_size)
        + row * (g.rlwe_size * g.poly_size)
        + (g.rlwe_size - 1) * g.poly_size
        + 1

\* The place in the tensor of the first coefficient of polynomial `index` of
\* row `row` of the level matrix `level`: level_matrix_iter_mut, row_iter_mut,
\* get_mut_polynomial, first_mut.
FirstCoefOf(g, level, row, index) ==
    level * (g.rlwe_size * g.rlwe_size * g.poly_size)
        + row * (g.rlwe_size * g.poly_size)
        + index * g.poly_size
        + 1

\* The rows of a level matrix from `row` on: the first coefficient of the
\* diagonal polynomial gets the gadget value added.
RECURSIVE AddOnRows(_, _, _, _, _)
AddOnRows(tensor, g, level, decomposition, row) ==
    IF row >= g.rlwe_size THEN tensor
    ELSE LET at == FirstCoefOf(g, level, row, row)
         IN  AddOnRows([tensor EXCEPT ![at] = WrappingAdd(tensor[at], decomposition)],
                       g, level, decomposition, row + 1)

\* The loop over the level matrices from `level` on; it stops at the first
\* level whose gadget value traps, leaving what it wrote.
RECURSIVE GadgetLoop(_, _, _, _)
GadgetLoop(tensor, g, mu, level) ==
    IF level >= DecompositionLevelCount(g) THEN Outcome(tensor, "")
    ELSE LET decomposition == Decomposition(mu, g.decomp_base_log, level)
         IN  IF decomposition.trap # "" THEN Outcome(tensor, decomposition.trap)
             ELSE GadgetLoop(AddOnRows(tensor, g, level, decomposition.value, 0),
                             g, mu, level + 1)

\* The two checks at the head of both calls.
GgswDimsHold(key, g) ==
    /\ CkDimEq(key.poly_size, {g.poly_size})
    /\ CkDimEq(KeySize(key), {g.rlwe_size - 1})

\* GlweSecretKey::encrypt_constant_ggsw: zero is the tensor as the
\* encryptions of zero left it.
EncryptConstantGgsw(key, g, mu, gaussian, uniform) ==
    IF ~GgswDimsHold(key, g)
    THEN [tensor |-> g.tensor, panic |-> DimensionMismatch, zero |-> g.tensor]
    ELSE LET zero == EncryptZeroGlweList(key, AsGlweList(g), gaussian, uniform)
             out == GadgetLoop(zero, g, mu, 0)
         IN  [tensor |-> out.tensor, panic |-> out.panic, zero |-> zero]

\* trivial_encrypt_constant_ggsw with the masks filled with ones and the
\* products by the key added to the bodies.
TrivialEncryptUnderKey(key, g, mu, gaussian) ==
    EncryptConstantGgsw(key, g, mu, gaussian,
                        Allocate(1, Len(g.tensor) - Len(gaussian)))

\* trivial_encrypt_constant_ggsw with the masks left as they were.
TrivialEncryptKeepingMasks(key, g, mu, gaussian) ==
    IF ~GgswDimsHold(key, g)
    THEN [tensor |-> g.tensor, panic |-> DimensionMismatch, zero |-> g.tensor]
    ELSE LET list == AsGlweList(g)
             body_at(i) == (i - 1) % (g.rlwe_size * g.poly_size)
                               >= GlweDimension(list) * g.poly_size
             zero == [i \in 1 .. Len(g.tensor) |->
                         IF body_at(i) THEN TrivialZeroList(list, gaussian)[i]
                         ELSE g.tensor[i]]
             out == GadgetLoop(zero, g, mu, 0)
         IN  [tensor |-> out.tensor, panic |-> out.panic, zero |-> zero]

\* GlweSecretKey::trivial_encrypt_constant_ggsw.
TrivialEncryptConstantGgsw(key, g, mu, gaussian) ==
    IF ~GgswDimsHold(key, g)
    THEN [tensor |-> g.tensor, panic |-> DimensionMismatch, zero |-> g.tensor]
    ELSE LET zero == TrivialZeroList(AsGlweList(g), gaussian)
             out == GadgetLoop(zero, g, mu, 0)
         IN  [tensor |-> out.tensor, panic |-> out.panic, zero |-> zero]

----------------------------------------------------------------------------
(* One GGSW encryption of a plaintext, on every build.                     *)

\* The plaintexts encrypted.
GgswPlaintexts == {0, 1, 3}

\* The values an allocated GGSW ciphertext holds.
GgswFills == {0, 9}

\* The shapes of the key given for a ciphertext of shape (n, k).
KeyShapes(n, k) == {<<n, k>>, <<n, k + 1>>, <<n + 1, k>>}

InitGgsw ==
    /\ \E n \in 1 .. MaxGlwePolySize, k \in 0 .. MaxGlweDimension,
          level_count \in 1 .. MaxLevelCount, base_log \in 1 .. MaxBaseLog,
          fill \in GgswFills :
          /\ ggsw = AllocateGgsw(fill, n, k + 1, level_count, base_log)
          /\ \E shape \in KeyShapes(n, k) :
                sk \in {PolynomialList(t, shape[1]) :
                           t \in BoolSamples(shape[2] * shape[1])}
    /\ \E mu \in GgswPlaintexts : plaintexts = <<mu>>
    /\ ciphertext = [tensor |-> <<>>, rlwe_size |-> 1, poly_size |-> 1]
    /\ decryptions = <<>>
    /\ noise = <<>>
    /\ overflow_checks \in BOOLEAN
    /\ little_endian = TRUE
    /\ panic = ""
    /\ NoPolynomial
    /\ NoLweKey
    /\ NoCsprng
    /\ hist = <<>>

\* The draws of the encryptions of zero of the whole ciphertext.
GgswGaussianDraws ==
    Samples(DimsNoiseLines,
            DecompositionLevelCount(ggsw) * ggsw.rlwe_size * ggsw.poly_size)

GgswUniformDraws ==
    Samples(DimsMaskLines,
            DecompositionLevelCount(ggsw) * ggsw.rlwe_size
                * (ggsw.rlwe_size - 1) * ggsw.poly_size)

\* hist records the plaintext, the tensor as the encryptions of zero left it
\* and the tensor before the call.
EncryptConstantGgswCall ==
    /\ hist = <<>>
    /\ \E gaussian \in GgswGaussianDraws, uniform \in GgswUniformDraws :
          LET out == EncryptConstantGgsw(sk, ggsw, plaintexts[1], gaussian, uniform)
          IN  /\ ggsw' = [ggsw EXCEPT !.tensor = out.tensor]
              /\ panic' = out.panic
              /\ noise' = IF out.panic = DimensionMismatch THEN <<>> ELSE gaussian
              /\ hist' = Append(hist, Call("encrypt_constant_ggsw",
                                           [mu |-> plaintexts[1], zero |-> out.zero],
                                           ggsw.tensor))
    /\ UNCHANGED <<polyVars, sk, ciphertext, plaintexts, decryptions, lwe_sk,
                   csprngVars, platformVars>>

TrivialEncryptConstantGgswCall ==
    /\ hist = <<>>
    /\ \E gaussian \in GgswGaussianDraws :
          LET out == TrivialEncryptConstantGgsw(sk, ggsw, plaintexts[1], gaussian)
          IN  /\ ggsw' = [ggsw EXCEPT !.tensor = out.tensor]
              /\ panic' = out.panic
              /\ noise' = IF out.panic = DimensionMismatch THEN <<>> ELSE gaussian
              /\ hist' = Append(hist, Call("trivial_encrypt_constant_ggsw",
                                           [mu |-> plaintexts[1], zero |-> out.zero],
                                           ggsw.tensor))
    /\ UNCHANGED <<polyVars, sk, ciphertext, plaintexts, decryptions, lwe_sk,
                   csprngVars, platformVars>>

NextGgsw ==
    \/ EncryptConstantGgswCall
    \/ TrivialEncryptConstantGgswCall

SpecGgsw == InitGgsw /\ [][NextGgsw]_vars

----------------------------------------------------------------------------
(* A GGSW encryption of a plaintext under a key of the shape of the        *)
(* ciphertext, then the decryption of its rows under the same key.         *)

InitGgswRows ==
    /\ \E n \in 1 .. MaxGlwePolySize, k \in 0 .. MaxGlweDimension,
          level_count \in 1 .. MaxLevelCount, base_log \in 1 .. MaxBaseLog :
          /\ ggsw = AllocateGgsw(0, n, k + 1, level_count, base_log)
          /\ sk \in {PolynomialList(t, n) : t \in BoolSamples(k * n)}
    /\ \E mu \in GgswPlaintexts : plaintexts = <<mu>>
    /\ ciphertext = [tensor |-> <<>>, rlwe_size |-> 1, poly_size |-> 1]
    /\ decryptions = <<>>
    /\ noise = <<>>
    /\ overflow_checks \in BOOLEAN
    /\ little_endian = TRUE
    /\ panic = ""
    /\ NoPolynomial
    /\ NoLweKey
    /\ NoCsprng
    /\ hist = <<>>

\* The row `row` of the level matrix `level`, as a GLWE ciphertext:
\* level_matrix_iter, row_iter, into_glwe.
GgswRow(g, level, row) == GetCiphertext(AsGlweList(g), level * g.rlwe_size + row)

\* decrypt_glwe of one row of the ciphertext into a fresh plaintext list; hist
\* records the level and the row.
DecryptGgswRowCall ==
    /\ Len(hist) = 1
    /\ panic = ""
    /\ \E level \in 0 .. DecompositionLevelCount(ggsw) - 1,
          row \in 0 .. ggsw.rlwe_size - 1 :
          LET out == DecryptGlweChecked(sk, Allocate(0, ggsw.poly_size),
                                        GgswRow(ggsw, level, row), ggsw.poly_size)
          IN  /\ decryptions' = out.tensor
              /\ panic' = out.panic
              /\ hist' = Append(hist, Call("decrypt_glwe",
                                           [level |-> level, row |-> row],
                                           decryptions))
    /\ UNCHANGED <<polyVars, sk, ciphertext, plaintexts, noise, ggsw, lwe_sk,
                   csprngVars, platformVars>>

NextGgswRows ==
    \/ EncryptConstantGgswCall
    \/ DecryptGgswRowCall

SpecGgswRows == InitGgswRows /\ [][NextGgswRows]_vars

----------------------------------------------------------------------------
(* Generation of a GLWE secret key and its conversion into an LWE key.     *)

\* The most bits a generated key holds.
MaxKeyBits == 6

\* GlweSecretKey::generate(dimension, poly_size), bits being the tensor
\* random_uniform_boolean_tensor gave.
Generate(dimension, poly_size, bits) == [tensor |-> bits, poly_size |-> poly_size]

\* GlweSecretKey::polynomial_size.
KeyPolynomialSize(key) == key.poly_size

\* LweSecretKey::from_container.
LweFromContainer(cont) == [tensor |-> cont]

\* LweSecretKey::key_size, the LWE dimension.
LweKeySize(key) == Len(key.tensor)

\* into_lwe_secret_key giving the bits in the opposite order.
IntoLweSecretKeyReversed(key) ==
    LweFromContainer([i \in 1 .. Len(key.tensor) |->
                         key.tensor[Len(key.tensor) + 1 - i]])

\* GlweSecretKey::into_lwe_secret_key.
IntoLweSecretKey(key) == LweFromContainer(key.tensor)

InitKey ==
    /\ NoGlwe
    /\ NoPolynomial
    /\ NoOther
    /\ hist = <<>>

\* The tensors random_uniform_boolean_tensor(len) can give.
RandomUniformBooleanTensors(len) == [1 .. len -> BOOLEAN]

GenerateCall ==
    /\ hist = <<>>
    /\ \E dimension \in 0 .. MaxKeyBits, poly_size \in 1 .. MaxKeyBits :
          /\ poly_size * dimension <= MaxKeyBits
          /\ \E bits \in RandomUniformBooleanTensors(poly_size * dimension) :
                sk' = Generate(dimension, poly_size, bits)
          /\ hist' = Append(hist, Call("generate", <<dimension, poly_size>>, sk))
    /\ UNCHANGED <<polyVars, ciphertext, plaintexts, decryptions, noise, otherVars>>

\* The key is moved into the LWE key; hist keeps it as it was.
IntoLweSecretKeyCall ==
    /\ Len(hist) = 1
    /\ lwe_sk' = IntoLweSecretKey(sk)
    /\ sk' = NoList
    /\ hist' = Append(hist, Call("into_lwe_secret_key", <<>>, sk))
    /\ UNCHANGED <<polyVars, ciphertext, plaintexts, decryptions, noise, ggsw,
                   csprngVars, platformVars, panic>>

NextKey ==
    \/ GenerateCall
    \/ IntoLweSecretKeyCall

SpecKey == InitKey /\ [][NextKey]_vars

----------------------------------------------------------------------------
(* AES-128, the block cipher of the generator (Aes128 of aes_soft), over   *)
(* blocks of 16 bytes in memory order, as FIPS-197 defines it.             *)

\* The exclusive or of two bits strings of n bits.
RECURSIVE XorBits(_, _, _)
XorBits(a, b, n) ==
    IF n = 0 THEN 0
    ELSE ((a + b) % 2) + 2 * XorBits(a \div 2, b \div 2, n - 1)

\* The exclusive or of two half bytes, tabulated.
XorNibble == [a \in 0 .. 15 |-> [b \in 0 .. 15 |-> XorBits(a, b, 4)]]

\* The exclusive or of two bytes.
Xor(a, b) == 16 * XorNibble[a \div 16][b \div 16] + XorNibble[a % 16][b % 16]

\* The substitution box, indexed from 1.
SBox ==
    <<
       99, 124, 119, 123, 242, 107, 111, 197, 48, 1, 103, 43, 254, 215, 171, 118,
       202, 130, 201, 125, 250, 89, 71, 240, 173, 212, 162, 175, 156, 164, 114, 192,
       183, 253, 147, 38, 54, 63, 247, 204, 52, 165, 229, 241, 113, 216, 49, 21,
       4, 199, 35, 195, 24, 150, 5, 154, 7, 18, 128, 226, 235, 39, 178, 117,
       9, 131, 44, 26, 27, 110, 90, 160, 82, 59, 214, 179, 41, 227, 47, 132,
       83, 209, 0, 237, 32, 252, 177, 91, 106, 203, 190, 57, 74, 76, 88, 207,
       208, 239, 170, 251, 67, 77, 51, 133, 69, 249, 2, 127, 80, 60, 159, 168,
       81, 163, 64, 143, 146, 157, 56, 245, 188, 182, 218, 33, 16, 255, 243, 210,
       205, 12, 19, 236, 95, 151, 68, 23, 196, 167, 126, 61, 100, 93, 25, 115,
       96, 129, 79, 220, 34, 42, 144, 136, 70, 238, 184, 20, 222, 94, 11, 219,
       224, 50, 58, 10, 73, 6, 36, 92, 194, 211, 172, 98, 145, 149, 228, 121,
       231, 200, 55, 109, 141, 213, 78, 169, 108, 86, 244, 234, 101, 122, 174, 8,
       186, 120, 37, 46, 28, 166, 180, 198, 232, 221, 116, 31, 75, 189, 139, 138,
       112, 62, 181, 102, 72, 3, 246, 14, 97, 53, 87, 185, 134, 193, 29, 158,
       225, 248, 152, 17, 105, 217, 142, 148, 155, 30, 135, 233, 206, 85, 40, 223,
       140, 161, 137, 13, 191, 230, 66, 104, 65, 153, 45, 15, 176, 84, 187, 22
    >>

\* The round constants of the key expansion, indexed from 1.
Rcon == <<1, 2, 4, 8, 16, 32, 64, 128, 27, 54>>

\* The product by x in GF(2^8).
XTime(a) == IF a < 128 THEN 2 * a ELSE Xor((2 * a) % 256, 27)

XorBlock(a, b) == <<>> \o [i \in 1 .. Len(a) |-> Xor(a[i], b[i])]

SubBytes(st) == <<>> \o [i \in 1 .. Len(st) |-> SBox[st[i] + 1]]

\* Byte i (from 0) of the state is row i % 4 of column i \div 4; row r is
\* rotated left by r columns.
ShiftRows(st) ==
    <<>> \o [i \in 1 .. 16 |->
                st[((i - 1) % 4) + 4 * ((((i - 1) \div 4) + ((i - 1) % 4)) % 4) + 1]]

\* Row r of the product of the column <<a0, a1, a2, a3>> by the MixColumns
\* matrix: 2 a_r + 3 a_(r+1) + a_(r+2) + a_(r+3).
MixColumn(col, r) ==
    LET a(j) == col[((r + j) % 4) + 1]
    IN  Xor(Xor(XTime(a(0)), Xor(XTime(a(1)), a(1))), Xor(a(2), a(3)))

MixColumns(st) ==
    <<>> \o [i \in 1 .. 16 |->
                MixColumn(SubSeq(st, 4 * ((i - 1) \div 4) + 1,
                                 4 * ((i - 1) \div 4) + 4),
                          (i - 1) % 4)]

\* The key expansion from word i on, w holding the bytes of the words before.
RECURSIVE ExpandKey(_, _)
ExpandKey(w, i) ==
    IF i >= 44 THEN w
    ELSE LET prev == SubSeq(w, 4 * (i - 1) + 1, 4 * i)
             back == SubSeq(w, 4 * (i - 4) + 1, 4 * (i - 3))
             rot == <<prev[2], prev[3], prev[4], prev[1]>>
             sub == SubBytes(rot)
             temp == IF i % 4 = 0
                     THEN <<Xor(sub[1], Rcon[i \div 4]), sub[2], sub[3], sub[4]>>
                     ELSE prev
         IN  ExpandKey(w \o XorBlock(back, temp), i + 1)

\* Aes128::new: the cipher is its eleven round keys.
Aes128New(key) == ExpandKey(key, 4)

RoundKey(cipher, r) == SubSeq(cipher, 16 * r + 1, 16 * r + 16)

\* The rounds of the encryption from round r on, on a state of 16 bytes: the
\* last round has no MixColumns.
RECURSIVE Rounds(_, _, _)
Rounds(cipher, st, r) ==
    IF Len(st) = 16 /\ r < 10
    THEN Rounds(cipher,
                XorBlock(MixColumns(ShiftRows(SubBytes(st))), RoundKey(cipher, r)),
                r + 1)
    ELSE XorBlock(ShiftRows(SubBytes(st)), RoundKey(cipher, r))

\* BlockCipher::encrypt_block.
EncryptBlock(cipher, block) == Rounds(cipher, XorBlock(block, RoundKey(cipher, 0)), 1)

----------------------------------------------------------------------------
(* u128 values, as their 16 bytes from the most significant to the least.  *)

\* Calls of generate_next made on one generator in a behaviour, enough for two
\* refills (calls 1 and 129).
MaxCalls == 130

\* How many calls one generator may be ahead of the other.
MaxLag == 1

\* Calls of generate_next made on a generator seeded from the entropy source.
MaxEntropyCalls == 0

\* The bytes of the buffer `generated` (U128).
BufferSize == 128

Reverse(s) == <<>> \o [i \in 1 .. Len(s) |-> s[Len(s) - i + 1]]

\* u128::to_ne_bytes: the bytes in the order of the host.
ToNeBytes(v) == IF little_endian THEN Reverse(v) ELSE v

\* u128::from_ne_bytes.
FromNeBytes(b) == IF little_endian THEN Reverse(b) ELSE b

\* u128::from_be: the value whose big-endian bytes are the host's bytes of v.
FromBe(v) == IF little_endian THEN Reverse(v) ELSE v

\* The sum of v and the carry, from byte i down, modulo 2^128.
RECURSIVE AddCarry(_, _, _)
AddCarry(v, i, carry) ==
    IF i = 0 THEN v
    ELSE AddCarry([v EXCEPT ![i] = (v[i] + carry) % 256], i - 1,
                  (v[i] + carry) \div 256)

\* u128::wrapping_add of a small value.
WrappingAdd128(v, c) == AddCarry(v, Len(v), c)

\* The carry out of the sum of v and the carry, from byte i down.
RECURSIVE CarryOut(_, _, _)
CarryOut(v, i, carry) ==
    IF i = 0 THEN carry ELSE CarryOut(v, i - 1, (v[i] + carry) \div 256)

\* v + c does not fit in a u128.
AddOverflows(v, c) == CarryOut(v, Len(v), c) > 0

\* The u128 of value c < 256, and the one of value 2^128 - c.
U128(c) == [i \in 1 .. 16 |-> IF i = 16 THEN c ELSE 0]

U128Max(c) == [i \in 1 .. 16 |-> IF i = 16 THEN 256 - c ELSE 255]

----------------------------------------------------------------------------
(* RandomGenerator (software.rs).                                          *)

\* Option<u128>.
None == [some |-> FALSE, value |-> <<>>]

Some(v) == [some |-> TRUE, value |-> v]

\* Option::unwrap_or: its argument is a value, computed before the call.
UnwrapOr(opt, default) == IF opt.some THEN opt.value ELSE default

\* The 16 bytes the e-th read of /dev/random gives: no two reads give the
\* same.
EntropyBytes(e) == [i \in 1 .. 16 |-> (16 * e + i) % 256]

\* aes_encrypt_many emitting the first two blocks in the other order.
AesEncryptManySwapped(message_1, message_2, message_3, message_4, message_5, message_6, message_7, message_8, cipher) ==
    EncryptBlock(cipher, ToNeBytes(message_2))
        \o EncryptBlock(cipher, ToNeBytes(message_1))
        \o EncryptBlock(cipher, ToNeBytes(message_3))
        \o EncryptBlock(cipher, ToNeBytes(message_4))
        \o EncryptBlock(cipher, ToNeBytes(message_5))
        \o EncryptBlock(cipher, ToNeBytes(message_6))
        \o EncryptBlock(cipher, ToNeBytes(message_7))
        \o EncryptBlock(cipher, ToNeBytes(message_8))

\* aes_encrypt_many: the eight messages as host-order bytes, each encrypted,
\* and the eight blocks concatenated.
AesEncryptMany(message_1, message_2, message_3, message_4, message_5, message_6, message_7, message_8, cipher) ==
    LET b1 == EncryptBlock(cipher, ToNeBytes(message_1))
        b2 == EncryptBlock(cipher, ToNeBytes(message_2))
        b3 == EncryptBlock(cipher, ToNeBytes(message_3))
        b4 == EncryptBlock(cipher, ToNeBytes(message_4))
        b5 == EncryptBlock(cipher, ToNeBytes(message_5))
        b6 == EncryptBlock(cipher, ToNeBytes(message_6))
        b7 == EncryptBlock(cipher, ToNeBytes(message_7))
        b8 == EncryptBlock(cipher, ToNeBytes(message_8))
    IN  b1 \o b2 \o b3 \o b4 \o b5 \o b6 \o b7 \o b8

\* RandomGenerator::new keeping the value read from the entropy source as the
\* state even when a state is given.
RandomGeneratorNewFromEntropy(key, state, iv_state, iv_key) ==
    [state |-> iv_state,
     aes |-> Aes128New(ToNeBytes(UnwrapOr(key, iv_key))),
     generated |-> [i \in 1 .. BufferSize |-> 0],
     generated_idx |-> BufferSize - 1]

\* RandomGenerator::new, iv_state and iv_key being the values the two calls of
\* generate_initialization_vector returned.
RandomGeneratorNew(key, state, iv_state, iv_key) ==
    [state |-> UnwrapOr(state, iv_state),
     aes |-> Aes128New(ToNeBytes(UnwrapOr(key, iv_key))),
     generated |-> [i \in 1 .. BufferSize |-> 0],
     generated_idx |-> BufferSize - 1]

\* update_state advancing the counter by 4.
UpdateStateByFour(rng) == [rng EXCEPT !.state = WrappingAdd128(rng.state, 4)]

\* RandomGenerator::update_state.
UpdateState(rng) == [rng EXCEPT !.state = WrappingAdd128(rng.state, 8)]

\* The sum self.state + c of generate_next: it wraps where the build does not
\* check overflows.
StatePlus(rng, c) == WrappingAdd128(rng.state, c)

\* A sum self.state + c of the refill overflows, which a build with overflow
\* checks traps on.
RefillTraps(rng) ==
    overflow_checks /\ \E c \in 1 .. 7 : AddOverflows(rng.state, c)

\* generate_next encrypting the counter values before advancing the counter.
GenerateNextEncryptsFirst(rng) ==
    IF rng.generated_idx < BufferSize - 1
    THEN [rng EXCEPT !.generated_idx = rng.generated_idx + 1]
    ELSE IF RefillTraps(rng) THEN rng
    ELSE [UpdateState(rng) EXCEPT
             !.generated = AesEncryptMany(
                 rng.state, StatePlus(rng, 1), StatePlus(rng, 2),
                 StatePlus(rng, 3), StatePlus(rng, 4), StatePlus(rng, 5),
                 StatePlus(rng, 6), StatePlus(rng, 7), rng.aes),
             !.generated_idx = 0]

\* RandomGenerator::generate_next: the generator after the call.  A refill
\* that traps leaves the counter advanced and the buffer as it was.
GenerateNext(rng) ==
    IF rng.generated_idx < BufferSize - 1
    THEN [rng EXCEPT !.generated_idx = rng.generated_idx + 1]
    ELSE LET advanced == UpdateState(rng)
         IN  IF RefillTraps(advanced) THEN advanced
             ELSE [advanced EXCEPT
                      !.generated = AesEncryptMany(
                          advanced.state, StatePlus(advanced, 1),
                          StatePlus(advanced, 2), StatePlus(advanced, 3),
                          StatePlus(advanced, 4), StatePlus(advanced, 5),
                          StatePlus(advanced, 6), StatePlus(advanced, 7),
                          advanced.aes),
                      !.generated_idx = 0]

\* The call of generate_next on rng traps.
GenerateNextTraps(rng) ==
    /\ rng.generated_idx >= BufferSize - 1
    /\ RefillTraps(UpdateState(rng))

\* The byte generate_next returns, rng being the generator after the call.
Returned(rng) == rng.generated[rng.generated_idx + 1]

----------------------------------------------------------------------------
(* Two generators of one program, made and used as test_generator_         *)
(* determinism does: both are made, then generate_next is called on them.  *)

GeneratorIds == {1, 2}

\* The words of the FIPS-197 test vector: 0x000102..0f, 0x001122..ff and
\* 0x69c4e0d86a7b0430d8cdb78070b4c55a.
FipsKey == [i \in 1 .. 16 |-> i - 1]

FipsPlaintext == [i \in 1 .. 16 |-> 17 * (i - 1)]

FipsCiphertext ==
    <<105, 196, 224, 216, 106, 123, 4, 48, 216, 205, 183, 128, 112, 180, 197, 90>>

\* The key seeds given to RandomGenerator::new.
KeyOptions == {None, Some(FipsKey)}

\* The state seeds given: zero, and a counter whose second refill passes
\* 2^128 - 1.
StateOptions == {None, Some(U128(0)), Some(U128Max(20))}

\* A generator not made yet.
NotMade ==
    [made |-> FALSE,
     rng |-> [state |-> <<>>, aes |-> <<>>, generated |-> <<>>, generated_idx |-> 0],
     key |-> None, seed |-> None, out |-> <<>>, refills |-> 0, starts |-> <<>>]

\* The generator was made from a key and a state, none read from /dev/random.
Seeded(g) == generators[g].key.some /\ generators[g].seed.some

InitCsprng ==
    /\ generators = [g \in GeneratorIds |-> NotMade]
    /\ \E available \in BOOLEAN : entropy = [available |-> available, reads |-> 0]
    /\ aes_call = [messages |-> <<>>, cipher |-> <<>>, output |-> <<>>]
    /\ overflow_checks \in BOOLEAN
    /\ little_endian \in BOOLEAN
    /\ panic = ""
    /\ NoPolynomial
    /\ NoGlwe
    /\ NoGgsw
    /\ NoLweKey
    /\ hist = <<>>

\* RandomGenerator::new(key, state): both arguments of unwrap_or are computed,
\* so /dev/random is opened and read twice, for the state then for the key;
\* the call panics when it cannot be.  hist records the call, its arguments
\* and the reads made before it; the generators are made in the order of
\* their numbers, once each.  A call that panicked ends the run.
NewCall(g) ==
    /\ panic = ""
    /\ ~generators[g].made
    /\ Len(hist) = g - 1
    /\ \E key \in KeyOptions, state \in StateOptions :
          IF entropy.available
          THEN /\ generators' =
                     [generators EXCEPT ![g] =
                         [made |-> TRUE,
                          rng |-> RandomGeneratorNew(
                                      key, state,
                                      FromNeBytes(EntropyBytes(entropy.reads)),
                                      FromNeBytes(EntropyBytes(entropy.reads + 1))),
                          key |-> key, seed |-> state, out |-> <<>>,
                          refills |-> 0, starts |-> <<>>]]
               /\ entropy' = [entropy EXCEPT !.reads = entropy.reads + 2]
               /\ panic' = ""
               /\ hist' = Append(hist, Call("new", [g |-> g, key |-> key, state |-> state],
                                            entropy.reads))
          ELSE /\ panic' = "Failed to open entropy source."
               /\ hist' = Append(hist, Call("new", [g |-> g, key |-> key, state |-> state],
                                            entropy.reads))
               /\ UNCHANGED <<generators, entropy>>
    /\ UNCHANGED <<polyVars, glweVars, ggsw, lwe_sk, aes_call, platformVars>>

\* The calls a generator may receive in a behaviour.
CallLimit(g) == IF Seeded(g) THEN MaxCalls ELSE MaxEntropyCalls

\* generate_next on generator g; out records the byte returned, -1 for a call
\* that trapped, refills counts the calls that found the buffer used up, and
\* starts records the first counter value each refill encrypted.
GenerateNextCall(g) ==
    /\ panic = ""
    /\ \A h \in GeneratorIds : generators[h].made
    /\ Len(generators[g].out) < CallLimit(g)
    /\ \A h \in GeneratorIds :
          Len(generators[g].out) - Len(generators[h].out) < MaxLag
    /\ LET rng == generators[g].rng
           traps == GenerateNextTraps(rng)
           after == GenerateNext(rng)
       IN  /\ generators' =
                 [generators EXCEPT
                     ![g].rng = after,
                     ![g].out = Append(@, IF traps THEN -1 ELSE Returned(after)),
                     ![g].refills = IF rng.generated_idx < BufferSize - 1
                                    THEN @ ELSE @ + 1,
                     ![g].starts = IF rng.generated_idx < BufferSize - 1 \/ traps
                                   THEN @ ELSE Append(@, after.state)]
           /\ panic' = IF traps THEN "attempt to add with overflow" ELSE ""
    /\ UNCHANGED <<polyVars, glweVars, ggsw, lwe_sk, entropy, aes_call, platformVars, hist>>

NextCsprng ==
    \/ \E g \in GeneratorIds : NewCall(g)
    \/ \E g \in GeneratorIds : GenerateNextCall(g)

SpecCsprng == InitCsprng /\ [][NextCsprng]_vars

----------------------------------------------------------------------------
(* aes_encrypt_many called on its own, as test_encrypt_many_messages does. *)

\* The messages encrypted: the plaintext of the test, zero, one and
\* 2^128 - 1.
MessageWords == {FromBe(FipsPlaintext), U128(0), U128(1), U128Max(1)}

\* The eight messages of a call: one word everywhere but at one place.
MessageTuples ==
    {[i \in 1 .. 8 |-> IF i = at THEN other ELSE word] :
        at \in 1 .. 8, word \in MessageWords, other \in MessageWords}

\* The keys of the cipher: the key of the test, and zero.
CipherKeys == {FromBe(FipsKey), U128(0)}

InitAes ==
    /\ little_endian \in BOOLEAN
    /\ overflow_checks = FALSE
    /\ \E messages \in MessageTuples, key \in CipherKeys :
          aes_call = [messages |-> messages,
                      cipher |-> Aes128New(ToNeBytes(key)),
                      output |-> <<>>]
    /\ generators = <<>>
    /\ entropy = [available |-> TRUE, reads |-> 0]
    /\ panic = ""
    /\ NoPolynomial
    /\ NoGlwe
    /\ NoGgsw
    /\ NoLweKey
    /\ hist = <<>>

AesEncryptManyCall ==
    /\ aes_call.output = <<>>
    /\ aes_call' =
          [aes_call EXCEPT !.output =
              AesEncryptMany(aes_call.messages[1], aes_call.messages[2],
                             aes_call.messages[3], aes_call.messages[4],
                             aes_call.messages[5], aes_call.messages[6],
                             aes_call.messages[7], aes_call.messages[8],
                             aes_call.cipher)]
    /\ UNCHANGED <<polyVars, glweVars, ggsw, lwe_sk, generators, entropy,
                   platformVars, panic, hist>>

NextAes == AesEncryptManyCall

SpecAes == InitAes /\ [][NextAes]_vars

----------------------------------------------------------------------------
(* Properties.  Each is stated of the last call of hist (or of the last    *)
(* two): every call of a behaviour is the last one in some reachable       *)
(* state, so an invariant covers them all.                                 *)

\* The index of the last call of hist, if any.
LastCall == IF Len(hist) >= 1 THEN {Len(hist)} ELSE {}

\* The index of the first of the last two calls of hist, if any.
LastPair == IF Len(hist) >= 2 THEN {Len(hist) - 1} ELSE {}

\* The polynomial the i-th call of hist left behind.
After(i) == IF i = Len(hist) THEN poly ELSE hist[i + 1].pre

RECURSIVE SeqSum(_)
SeqSum(s) == IF s = <<>> THEN 0 ELSE s[1] + SeqSum(Tail(s))

\* The product of l and r in Z_{2^q}[X]/(X^N+1), coefficient by coefficient:
\* the terms of degree c, minus the terms of degree c + N.
NegacyclicProduct(l, r) ==
    LET n == Len(l)
        InRange(c) == SeqSum([i \in 1 .. n |->
                         IF c - (i - 1) \in 0 .. (n - 1)
                         THEN l[i] * r[c - (i - 1) + 1] ELSE 0])
        Folded(c) == SeqSum([i \in 1 .. n |->
                         IF c + n - (i - 1) \in 0 .. (n - 1)
                         THEN l[i] * r[c + n - (i - 1) + 1] ELSE 0])
    IN  [k \in 1 .. n |-> (InRange(k - 1) - Folded(k - 1)) % Modulus]

\* The monomial X^r as a polynomial of size n.
Monomial(n, r) == [i \in 1 .. n |-> IF i = r + 1 THEN 1 ELSE 0]

\* C4: update_with_wrapping_monic_monomial_mul(d) followed by
\* update_with_wrapping_unit_monomial_div(d) leaves the polynomial equal to its
\* initial value, for every size and every degree, d >= N and d >= 2N included.
C4_MulThenDivRestores ==
    \A i \in LastPair :
        ( /\ hist[i].op = "monic_monomial_mul"
          /\ hist[i + 1].op = "unit_monomial_div"
          /\ hist[i].arg = hist[i + 1].arg )
        => After(i + 1) = hist[i].pre

\* A multiplication by a degree beyond two cycles that changed the polynomial,
\* undone by the division by the same degree.
C4_Witness ==
    /\ Len(hist) = 2
    /\ hist[1].op = "monic_monomial_mul"
    /\ hist[2].op = "unit_monomial_div"
    /\ hist[1].arg = hist[2].arg
    /\ hist[1].arg > 2 * Len(poly)
    /\ Len(poly) = MaxPolySize
    /\ hist[2].pre # hist[1].pre
    /\ poly = hist[1].pre

\* C7: update_with_wrapping_monic_monomial_mul(d) is the multiplication by X^d
\* in the quotient ring: with d = c*N + r it equals the schoolbook product by
\* X^r, negated when c is odd; the degree d + N gives the negated result and
\* d + 2N the same result; [1,2,3] times X^2 is [254,253,1].
C7_MonicMulIsProductByMonomial ==
    \A i \in LastCall :
        hist[i].op = "monic_monomial_mul" =>
            LET P == hist[i].pre
                n == Len(P)
                d == hist[i].arg
                c == d \div n
                r == d % n
                prod == FillWithWrappingMul(P, P, Monomial(n, r))
            IN  /\ After(i) = IF c % 2 = 1 THEN NegateAll(prod) ELSE prod
                /\ UpdateWithWrappingMonicMonomialMul(P, d + n) = NegateAll(After(i))
                /\ UpdateWithWrappingMonicMonomialMul(P, d + 2 * n) = After(i)
                /\ (P = <<1, 2, 3>> /\ d = 2) => After(i) = <<254, 253, 1>>

\* [1,2,3] multiplied by X^2, and a polynomial multiplied by an odd number of
\* cycles plus a remainder.
C7_Witness ==
    /\ Len(hist) = 2
    /\ hist[1].op = "monic_monomial_mul"
    /\ hist[1].pre = <<1, 2, 3>>
    /\ hist[1].arg = 2
    /\ hist[2].op = "monic_monomial_mul"
    /\ hist[2].arg = Len(poly) + 1
    /\ poly = <<1, 2, 3>>

\* C8: update_with_wrapping_unit_monomial_div(d) is the multiplication by
\* X^(-d): it gives the polynomial update_with_wrapping_monic_monomial_mul gives
\* with the degree (2N - (d mod 2N)) mod 2N; [1,2,3] divided by X^2 is
\* [3,255,254].
C8_DivIsMulByInverseDegree ==
    \A i \in LastCall :
        hist[i].op = "unit_monomial_div" =>
            LET P == hist[i].pre
                n == Len(P)
                d == hist[i].arg
            IN  /\ After(i) = UpdateWithWrappingMonicMonomialMul(
                                  P, (2 * n - (d % (2 * n))) % (2 * n))
                /\ (P = <<1, 2, 3>> /\ d = 2) => After(i) = <<3, 255, 254>>

\* [1,2,3] divided by X^2, then divided by a degree of an odd number of cycles.
C8_Witness ==
    /\ Len(hist) = 2
    /\ hist[1].op = "unit_monomial_div"
    /\ hist[1].pre = <<1, 2, 3>>
    /\ hist[1].arg = 2
    /\ poly # hist[2].pre
    /\ hist[2].op = "unit_monomial_div"
    /\ (hist[2].arg \div Len(poly)) % 2 = 1
    /\ hist[2].arg % Len(poly) # 0

\* C5: fill_with_wrapping_mul(lhs, rhs) sets every coefficient c of the output
\* to the sum of lhs[i]*rhs[j] over i+j = c minus the sum over i+j = c+N,
\* modulo 2^q, whatever the output held before; [4,5,0]*[7,9,0] is [28,71,45].
C5_FillMulIsNegacyclicProduct ==
    \A i \in LastCall :
        hist[i].op = "fill_with_wrapping_mul" =>
            /\ After(i) = NegacyclicProduct(lhs, rhs)
            /\ (lhs = <<4, 5, 0>> /\ rhs = <<7, 9, 0>>) => After(i) = <<28, 71, 45>>

\* A product with folded terms computed over an output that was not zero.
C5_Witness ==
    /\ Len(hist) = 2
    /\ hist[2].op = "fill_with_wrapping_mul"
    /\ hist[2].pre # Allocate(0, Len(poly))
    /\ Len(poly) = MaxPolySize
    /\ lhs[Len(lhs)] # 0
    /\ rhs[Len(rhs)] # 0
    /\ poly # Allocate(0, Len(poly))

\* A binary polynomial lifted into the word domain: 1 for true, 0 for false.
Lift(b) == [i \in 1 .. Len(b) |-> IF b[i] THEN 1 ELSE 0]

\* The sum, from pair i on, of the negacyclic products of the polynomials of
\* cl by the lifted polynomials of bl.
RECURSIVE SumOfProducts(_, _, _)
SumOfProducts(cl, bl, i) ==
    IF i >= PolynomialCount(cl) THEN [k \in 1 .. cl.poly_size |-> 0]
    ELSE LET prod == NegacyclicProduct(GetPolynomial(cl, i), Lift(GetPolynomial(bl, i)))
             rest == SumOfProducts(cl, bl, i + 1)
         IN  [k \in 1 .. cl.poly_size |-> (prod[k] + rest[k]) % Modulus]

\* C6: fill_with_wrapping_binary_mul(P, B) gives exactly the output of
\* fill_with_wrapping_mul(P, B') with B' the 0/1 lift of B, whatever the output
\* held before.
C6_BinaryMulIsMulByLift ==
    \A i \in LastCall :
        hist[i].op = "fill_with_wrapping_binary_mul" =>
            After(i) = FillWithWrappingMul(hist[i].pre, GetPolynomial(coef_list, 0),
                                           Lift(GetPolynomial(bin_list, 0)))

\* A binary product with folded terms written over an output that was not
\* zero.
C6_Witness ==
    /\ Len(hist) = 2
    /\ hist[2].op = "fill_with_wrapping_binary_mul"
    /\ hist[2].pre # Allocate(0, Len(poly))
    /\ Len(poly) = MaxPolySize
    /\ PolynomialCount(coef_list) = 1
    /\ coef_list.tensor[Len(poly)] # 0
    /\ bin_list.tensor[Len(poly)]
    /\ poly # Allocate(0, Len(poly))
    /\ poly # hist[2].pre

\* C9: update_with_wrapping_add_binary_multisum on two lists of the same count
\* adds to the polynomial the sum of the negacyclic products P_i * B_i, B_i
\* lifted to 0/1; the u8 example gives [231,96,120].
C9_AddMultisumAddsProducts ==
    \A i \in LastCall :
        ( /\ hist[i].op = "update_with_wrapping_add_binary_multisum"
          /\ PolynomialCount(coef_list) = PolynomialCount(bin_list) )
        => /\ After(i) = UpdateWithWrappingAdd(hist[i].pre,
                                               SumOfProducts(coef_list, bin_list, 0))
           /\ ( /\ hist[i].pre = <<250, 250, 250>>
                /\ coef_list.tensor = <<100, 20, 3, 4, 5, 6>>
                /\ bin_list.tensor = <<FALSE, TRUE, TRUE, TRUE, FALSE, FALSE>> )
              => After(i) = <<231, 96, 120>>

\* The u8 example of the doc-test.
C9_Witness ==
    /\ Len(hist) = 1
    /\ hist[1].op = "update_with_wrapping_add_binary_multisum"
    /\ hist[1].pre = <<250, 250, 250>>
    /\ coef_list = PolynomialList(<<100, 20, 3, 4, 5, 6>>, 3)
    /\ bin_list = PolynomialList(<<FALSE, TRUE, TRUE, TRUE, FALSE, FALSE>>, 3)
    /\ poly = <<231, 96, 120>>

----------------------------------------------------------------------------
(* GLWE encryption and decryption.                                         *)

\* The first call of hist was op1 and the second, the last, op2.
Called(op1, op2) ==
    /\ Len(hist) = 2
    /\ hist[1].op = op1
    /\ hist[2].op = op2

\* The magnitude of the word e read as a signed value.
Magnitude(e) == IF e <= Modulus - e THEN e ELSE Modulus - e

\* The wraparound distance between the words a and b.
Dist(a, b) == Magnitude(WrappingSub(a, b))

\* C1: encrypt_glwe followed by decrypt_glwe under the same key gives
\* out[j] = M[j] + E[j] mod 2^q for every coefficient j, whatever the mask
\* drawn and the previous contents of out; when the noise drawn is all zero
\* the decryption is M, and when every |E[j]| is under a bound, the wraparound
\* distance between out[j] and M[j] is under the same bound (every bound up
\* to half the modulus of the model's word, the spec's 400 being one such
\* bound for the wider words).
C1_EncryptThenDecryptIsMessagePlusNoise ==
    Called("encrypt_glwe", "decrypt_glwe") =>
        /\ Len(decryptions) = Len(plaintexts)
        /\ \A j \in 1 .. Len(plaintexts) :
              decryptions[j] = (plaintexts[j] + noise[j]) % Modulus
        /\ (\A j \in 1 .. Len(noise) : noise[j] = 0) => decryptions = plaintexts
        /\ \A bound \in 1 .. (Modulus \div 2) :
              (\A j \in 1 .. Len(noise) : Magnitude(noise[j]) < bound)
                  => \A j \in 1 .. Len(plaintexts) :
                         Dist(decryptions[j], plaintexts[j]) < bound

\* C1 happens: a key with a one in it, a negative noise on a zero plaintext,
\* decrypted to the word just under the modulus, at distance one, over the
\* previous contents of the output.
C1_Witness ==
    /\ Called("encrypt_glwe", "decrypt_glwe")
    /\ \E j \in 1 .. Len(sk.tensor) : sk.tensor[j]
    /\ plaintexts[1] = 0
    /\ noise[1] = Modulus - 1
    /\ decryptions[1] = Modulus - 1
    /\ Dist(decryptions[1], plaintexts[1]) = 1
    /\ hist[2].pre[1] = 250

\* C2: after encrypt_glwe_list then decrypt_glwe_list under the same key, for
\* every ciphertext i and coefficient j, decrypted[i*N + j] - M[i*N + j]
\* mod 2^q is the j-th noise sample drawn for ciphertext i; the i-th
\* ciphertext is the encryption of the i-th sublist alone with the draws
\* made for it, and decrypts alone to that sublist plus its noise.
C2_ListRoundTripPerCiphertext ==
    Called("encrypt_glwe_list", "decrypt_glwe_list") =>
        LET n == ciphertext.poly_size
            m == CiphertextCount(ciphertext)
        IN  /\ Len(decryptions) = m * n
            /\ Len(plaintexts) = m * n
            /\ \A i \in 0 .. m - 1 :
                  /\ \A j \in 0 .. n - 1 :
                        WrappingSub(decryptions[i * n + j + 1],
                                    plaintexts[i * n + j + 1])
                            = GetSublist(noise, n, i)[j + 1]
                  /\ GetCiphertext(ciphertext, i)
                        = EncryptGlwe(sk, GetCiphertext(ciphertext, i), n,
                                      GetSublist(plaintexts, n, i),
                                      GetSublist(noise, n, i),
                                      GetMask(GetCiphertext(ciphertext, i), n).tensor)
                  /\ DecryptGlwe(sk, GetSublist(decryptions, n, i),
                                 GetCiphertext(ciphertext, i), n)
                        = [j \in 1 .. n |->
                              WrappingAdd(GetSublist(plaintexts, n, i)[j],
                                          GetSublist(noise, n, i)[j])]

\* C2 happens: two ciphertexts or more, of different sublists, under a key
\* with a one in it, with a noise drawn, decrypted.
C2_Witness ==
    /\ Called("encrypt_glwe_list", "decrypt_glwe_list")
    /\ CiphertextCount(ciphertext) >= 2
    /\ GetSublist(plaintexts, ciphertext.poly_size, 0)
           # GetSublist(plaintexts, ciphertext.poly_size, 1)
    /\ \E j \in 1 .. Len(sk.tensor) : sk.tensor[j]
    /\ noise[1] # 0
    /\ decryptions # plaintexts
    /\ decryptions # hist[2].pre

\* C3: encrypt_zero_glwe writes the ciphertext encrypt_glwe writes for the
\* all-zero plaintext of length N under the same key and the same draws, and
\* decrypt_glwe of its output under the same key returns the noise drawn for
\* the body.
C3_EncryptZeroIsEncryptOfZero ==
    LET n == ciphertext.poly_size
        ct == GetCiphertext(ciphertext, 0)
    IN  /\ (Len(hist) >= 1 /\ hist[1].op = "encrypt_zero_glwe") =>
               ct = EncryptGlwe(sk, ct, n, Allocate(0, n), noise,
                                GetMask(ct, n).tensor)
        /\ Called("encrypt_zero_glwe", "decrypt_glwe") => decryptions = noise

\* C3 happens: a zero encryption under a key with a one in it, with a mask and
\* a noise drawn, whose body is not the noise, decrypted to the noise.
C3_Witness ==
    /\ Called("encrypt_zero_glwe", "decrypt_glwe")
    /\ \E j \in 1 .. Len(sk.tensor) : sk.tensor[j]
    /\ noise[1] # 0
    /\ GetBody(GetCiphertext(ciphertext, 0), ciphertext.poly_size) # noise
    /\ decryptions = noise
    /\ decryptions # hist[2].pre

----------------------------------------------------------------------------
(* The generator.                                                          *)

\* Generators g and h were made from the same key and the same state.
SameSeeds(g, h) ==
    /\ generators[g].made /\ generators[h].made
    /\ Seeded(g) /\ Seeded(h)
    /\ generators[g].key = generators[h].key
    /\ generators[g].seed = generators[h].seed

\* C11: two generators made with Some(key), Some(state) of the same key and
\* state give the same outcome on their n-th call of generate_next for every
\* n both have reached, across refills: the same byte (or both calls trap),
\* whatever the entropy source returned while each was made.
C11_SameSeedsSameBytes ==
    \A g, h \in GeneratorIds :
        SameSeeds(g, h) =>
            \A n \in 1 .. Len(generators[g].out) :
                n <= Len(generators[h].out) =>
                    generators[g].out[n] = generators[h].out[n]

\* C11 happens: two generators of the same seeds, made from different reads of
\* the entropy source, have both passed their second refill and returned the
\* same bytes, not all the same.
C11_Witness ==
    /\ SameSeeds(1, 2)
    /\ entropy.reads = 4
    /\ Len(generators[1].out) > BufferSize
    /\ Len(generators[2].out) > BufferSize
    /\ generators[1].out[BufferSize + 1] = generators[2].out[BufferSize + 1]
    /\ generators[1].out[BufferSize + 1] # generators[1].out[1]
    /\ generators[1].out[1] >= 0

\* The bytes generator g returned: its calls that did not trap.
BytesReturned(g) == SelectSeq(generators[g].out, LAMBDA b : b >= 0)

\* The cipher of generator g is keyed with the key given to it: the first
\* round key of AES-128 is the key.
KeyedAsGiven(g) ==
    RoundKey(generators[g].rng.aes, 0) = ToNeBytes(generators[g].key.value)

\* Byte i (from 0) of AES-128 under the key of generator g of the counter
\* value c.
KeystreamByte(g, c, i) == EncryptBlock(generators[g].rng.aes, ToNeBytes(c))[i + 1]

\* The last call of generate_next on g returned a byte.
LastReturned(g) ==
    /\ generators[g].made
    /\ Seeded(g)
    /\ generators[g].out # <<>>
    /\ Last(generators[g].out) >= 0

\* The number (from 0) of the last byte g returned.
LastByte(g) == Len(BytesReturned(g)) - 1

\* C12 as stated: the n-th byte returned (n from 0) by a generator of
\* counter seed C and key K is byte n mod 16 of AES-128_K of C + floor(n/16),
\* each refill encrypting C .. C+7 before it advances the counter.
C12_RefillEncryptsThenAdvances ==
    \A g \in GeneratorIds :
        LastReturned(g) =>
            LET n == LastByte(g)
            IN  /\ KeyedAsGiven(g)
                /\ Last(generators[g].out)
                    = KeystreamByte(g,
                                    WrappingAdd128(generators[g].seed.value, n \div 16),
                                    n % 16)

\* C12 amended: each refill first advances the counter by 8 and then encrypts
\* the advanced values: the n-th byte returned (n from 0) is byte n mod 16 of
\* AES-128_K of C + 8*a + floor((n mod 128)/16) mod 2^128, a the number of
\* refills started so far, which is floor(n/128) + 1 when none trapped, so the
\* counter value is C + 8 + floor(n/16) and the first 16 bytes are the
\* encryption of C + 8.
C12_RefillAdvancesThenEncrypts ==
    \A g \in GeneratorIds :
        LastReturned(g) =>
            LET n == LastByte(g)
                counter == WrappingAdd128(
                               WrappingAdd128(generators[g].seed.value,
                                              8 * generators[g].refills),
                               (n % BufferSize) \div 16)
            IN  /\ KeyedAsGiven(g)
                /\ Last(generators[g].out) = KeystreamByte(g, counter, n % 16)
                /\ (\A i \in 1 .. Len(generators[g].out) : generators[g].out[i] >= 0)
                      => /\ generators[g].refills = (n \div BufferSize) + 1
                         /\ counter = WrappingAdd128(
                                          WrappingAdd128(generators[g].seed.value, 8),
                                          n \div 16)

\* C12 happens: a generator has passed its second refill, and its first byte
\* is that of the encryption of C + 8, not of C.
C12_Witness ==
    /\ generators[1].made
    /\ Seeded(1)
    /\ Len(BytesReturned(1)) > BufferSize
    /\ generators[1].refills = 2
    /\ generators[1].out[1]
          = KeystreamByte(1, WrappingAdd128(generators[1].seed.value, 8), 0)
    /\ generators[1].out[1] # KeystreamByte(1, generators[1].seed.value, 0)

\* The reads of the entropy source made by the i-th call of hist.
ReadsOfCall(i) ==
    (IF i = Len(hist) THEN entropy.reads ELSE hist[i + 1].pre) - hist[i].pre

\* The seeds the call `arg` of RandomGenerator::new leaves absent.
AbsentSeeds(arg) ==
    (IF arg.key.some THEN 0 ELSE 1) + (IF arg.state.some THEN 0 ELSE 1)

\* C14: RandomGenerator::new reads the entropy source once per absent seed,
\* and with both seeds given it reads nothing and succeeds even when the
\* entropy source cannot be opened.
C14_EntropyReadOnlyForAbsentSeeds ==
    \A i \in 1 .. Len(hist) :
        hist[i].op = "new" =>
            /\ generators[hist[i].arg.g].made => ReadsOfCall(i) = AbsentSeeds(hist[i].arg)
            /\ AbsentSeeds(hist[i].arg) = 0 => generators[hist[i].arg.g].made

\* Block i (from 0) of the output of aes_encrypt_many.
OutputBlock(i) == SubSeq(aes_call.output, 16 * i + 1, 16 * i + 16)

\* C13: aes_encrypt_many returns 128 bytes of which bytes 16*i .. 16*i+15 are
\* the AES-128 encryption under the cipher's key of the host-order bytes of
\* message i+1, for every i in 0..7; with the FIPS-197 key and the eight
\* messages the FIPS-197 plaintext, as the test builds them, every block read
\* back as a word is 0x69c4e0d86a7b0430d8cdb78070b4c55a.
C13_BlocksInInputOrder ==
    aes_call.output # <<>> =>
        /\ Len(aes_call.output) = BufferSize
        /\ \A i \in 0 .. 7 :
              OutputBlock(i)
                  = EncryptBlock(aes_call.cipher, ToNeBytes(aes_call.messages[i + 1]))
        /\ (/\ aes_call.cipher = Aes128New(ToNeBytes(FromBe(FipsKey)))
            /\ \A i \in 1 .. 8 : aes_call.messages[i] = FromBe(FipsPlaintext))
              => \A i \in 0 .. 7 : FromNeBytes(OutputBlock(i)) = FromBe(FipsCiphertext)

\* C13 happens: under the key of the test, the second message is not the
\* first and the others are the plaintext of the test, whose blocks are the
\* ciphertext of the test, the second block being the first of none.
C13_Witness ==
    /\ aes_call.output # <<>>
    /\ aes_call.cipher = Aes128New(ToNeBytes(FromBe(FipsKey)))
    /\ aes_call.messages[1] = FromBe(FipsPlaintext)
    /\ aes_call.messages[2] = U128(1)
    /\ OutputBlock(0) = FipsCiphertext
    /\ OutputBlock(7) = FipsCiphertext
    /\ OutputBlock(1) # OutputBlock(0)


\* The last call made is one of ops.
LastCalled(ops) == hist # <<>> /\ Last(hist).op \in ops

\* The last call was made with a key whose polynomial count is not the mask
\* count of the ciphertext.
KeyCountDiffers == KeySize(sk) # GlweDimension(ciphertext)

\* C15: encrypt_glwe, encrypt_zero_glwe and decrypt_glwe signal a dimension
\* mismatch whenever the number of polynomials of the key differs from the
\* number of mask polynomials of the ciphertext; none of them returns.
C15_KeyCountMismatchIsSignalled ==
    (/\ LastCalled({"encrypt_glwe", "encrypt_zero_glwe", "decrypt_glwe"})
     /\ KeyCountDiffers)
        => panic = DimensionMismatch

\* The checks of the list calls fail on the operands of the last call.
ListMismatch(encoded) ==
    \/ Len(encoded) # CiphertextCount(ciphertext) * ciphertext.poly_size
    \/ GlweDimension(ciphertext) # KeySize(sk)

\* C16: encrypt_glwe_list and decrypt_glwe_list called with a plaintext count
\* other than m*N, or with a list whose GLWE dimension is not the key size,
\* panic with a dimension mismatch, leave their output as it was and draw no
\* random value.
C16_ListMismatchFailsBeforeAnyWrite ==
    /\ (LastCalled({"encrypt_glwe_list"}) /\ ListMismatch(plaintexts))
          => /\ panic = DimensionMismatch
             /\ ciphertext.tensor = Last(hist).pre
             /\ Last(hist).arg = 0
             /\ noise = <<>>
    /\ (LastCalled({"decrypt_glwe_list"}) /\ ListMismatch(Last(hist).pre))
          => /\ panic = DimensionMismatch
             /\ decryptions = Last(hist).pre

\* encrypt_glwe_list was refused a non-empty list for its plaintext count
\* alone, the key fitting the list.
C16_Witness ==
    /\ LastCalled({"encrypt_glwe_list"})
    /\ CiphertextCount(ciphertext) >= 1
    /\ GlweDimension(ciphertext) = KeySize(sk)
    /\ sk.poly_size = ciphertext.poly_size
    /\ Len(plaintexts) # CiphertextCount(ciphertext) * ciphertext.poly_size
    /\ panic = DimensionMismatch
    /\ ciphertext.tensor = Last(hist).pre

----------------------------------------------------------------------------
(* GGSW encryption.                                                        *)

\* The last call passed its dimension checks, with decomposition parameters
\* of the domain: B * l <= q.
GgswCallInDomain(ops) ==
    /\ LastCalled(ops)
    /\ panic # DimensionMismatch
    /\ ggsw.decomp_base_log * DecompositionLevelCount(ggsw) <= BITS

\* mu * 2^(q - B*(level+1)), not reduced.
GadgetValue(level) ==
    Last(hist).arg.mu * 2 ^ (BITS - ggsw.decomp_base_log * (level + 1))

\* The levels and rows whose diagonal constant coefficient is at flat offset
\* `offset` (counted from 0) of the tensor.
DiagonalAt(offset) ==
    LET k == ggsw.rlwe_size - 1
        N == ggsw.poly_size
    IN  {lr \in (0 .. DecompositionLevelCount(ggsw) - 1) \X (0 .. k) :
            offset = lr[1] * (k + 1) * (k + 1) * N + lr[2] * (k + 1) * N + lr[2] * N}

\* C17: after encrypt_constant_ggsw(mu), compared with the encryptions of zero
\* of step 1, the coefficient at flat offset
\* level*(k+1)^2*N + r*(k+1)*N + r*N has mu * 2^(q - B*(level+1)) mod 2^q
\* added, for every level and every row r in 0..k, and every other
\* coefficient is as the zero encryption wrote it.
C17_GadgetAddedOnDiagonalOnly ==
    GgswCallInDomain({"encrypt_constant_ggsw"}) =>
        \A i \in 1 .. Len(ggsw.tensor) :
            LET on == DiagonalAt(i - 1)
                zero == Last(hist).arg.zero[i]
            IN  /\ Cardinality(on) <= 1
                /\ \A lr \in on :
                      ggsw.tensor[i] = (zero + GadgetValue(lr[1])) % Modulus
                /\ on = {} => ggsw.tensor[i] = zero

\* C18: in encrypt_constant_ggsw and trivial_encrypt_constant_ggsw with
\* B*(level+1) <= q at every level, the gadget value is computed by wrapping
\* arithmetic: the call never traps on an overflow, whatever the plaintext.
C18_GadgetValueNeverTraps ==
    GgswCallInDomain({"encrypt_constant_ggsw", "trivial_encrypt_constant_ggsw"})
        => panic \notin {MultiplyOverflow, ShiftOverflow, SubtractOverflow}

\* Flat offset `offset` (from 0) is in a mask polynomial of its row: one of
\* the first k polynomials.
InMask(offset) ==
    offset % (ggsw.rlwe_size * ggsw.poly_size) < (ggsw.rlwe_size - 1) * ggsw.poly_size

\* The gadget loop reached the level: no gadget value up to it trapped.
LevelReached(level) ==
    \/ ~overflow_checks
    \/ \A j \in 0 .. level : GadgetValue(j) < Modulus

\* The noise drawn for flat offset `offset`, which is in a body.
NoiseAt(offset) ==
    LET row_len == ggsw.rlwe_size * ggsw.poly_size
    IN  noise[(offset \div row_len) * ggsw.poly_size + (offset % ggsw.poly_size) + 1]

----------------------------------------------------------------------------
(* Key generation.                                                         *)

\* The key is one generate(k, N) gives: k*N bits, key_size k, polynomial size
\* N, and a polynomial list of k polynomials of size N over the same bits.
GeneratedAs(key, k, N) ==
    /\ Len(key.tensor) = k * N
    /\ \A i \in 1 .. k * N : key.tensor[i] \in BOOLEAN
    /\ KeySize(key) = k
    /\ KeyPolynomialSize(key) = N
    /\ PolynomialCount(AsPolynomialList(key)) = k
    /\ \A j \in 0 .. k - 1 : PolynomialSize(GetPolynomial(AsPolynomialList(key), j)) = N
    /\ AsPolynomialList(key).tensor = key.tensor

\* C20: generate(k, N) gives a key of k*N binary coefficients with key_size k
\* and polynomial size N, whose polynomial list is k polynomials of size N
\* over the same bits; into_lwe_secret_key gives an LWE key of dimension k*N
\* whose i-th bit is coefficient i mod N of polynomial floor(i/N) of the GLWE
\* key.
C20_GenerateThenIntoLweKeepsBits ==
    /\ LastCalled({"generate"}) =>
          GeneratedAs(sk, Last(hist).arg[1], Last(hist).arg[2])
    /\ LastCalled({"into_lwe_secret_key"}) =>
          LET k == hist[1].arg[1]
              N == hist[1].arg[2]
              key == Last(hist).pre
          IN  /\ GeneratedAs(key, k, N)
              /\ LweKeySize(lwe_sk) = k * N
              /\ \A i \in 0 .. k * N - 1 :
                    lwe_sk.tensor[i + 1]
                        = GetPolynomial(AsPolynomialList(key), i \div N)[(i % N) + 1]

\* A key of two polynomials of two coefficients or more, whose first and last
\* bits differ, was generated and turned into an LWE key.
C20_Witness ==
    /\ LastCalled({"into_lwe_secret_key"})
    /\ hist[1].arg[1] >= 2
    /\ hist[1].arg[2] >= 2
    /\ LweKeySize(lwe_sk) = hist[1].arg[1] * hist[1].arg[2]
    /\ lwe_sk.tensor[1] # lwe_sk.tensor[LweKeySize(lwe_sk)]

----------------------------------------------------------------------------
(* The counter and the buffer of RandomGenerator.                          *)

\* C21: no call of generate_next traps on an overflow of the counter
\* arithmetic, whatever the seed: every call returns a byte.
C21_NoCallTraps ==
    /\ panic # "attempt to add with overflow"
    /\ \A g \in GeneratorIds :
          \A n \in 1 .. Len(generators[g].out) : generators[g].out[n] \in 0 .. 255

\* C28: generated_idx stays in 0..127; after n calls of generate_next the
\* buffer was found used up on calls 1, 129, 257, ... and on no other, so
\* ceil(n / 128) times, each of them a refill; the n-th call returns the byte
\* (n - 1) mod 128 of the buffer, and a refill was made before any byte was
\* returned.
C28_BufferInvariant ==
    \A g \in GeneratorIds :
        generators[g].made =>
            LET n == Len(generators[g].out)
                rng == generators[g].rng
            IN  /\ rng.generated_idx \in 0 .. BufferSize - 1
                /\ generators[g].refills = (n + BufferSize - 1) \div BufferSize
                /\ Len(generators[g].starts) = generators[g].refills
                /\ n >= 1 =>
                      /\ rng.generated_idx = (n - 1) % BufferSize
                      /\ generators[g].out[n] = rng.generated[rng.generated_idx + 1]

\* The counter values a refill that started at `start` encrypted.
Encrypted(start) == {WrappingAdd128(start, c) : c \in 0 .. 7}

\* C29: each refill of a generator encrypts the 8 counter values that start 8
\* after the start of the refill before it, and no two refills encrypt a same
\* counter value.
C29_CounterValuesNeverReused ==
    \A g \in GeneratorIds :
        LET starts == generators[g].starts
        IN  /\ \A j \in 2 .. Len(starts) :
                  starts[j] = WrappingAdd128(starts[j - 1], 8)
            /\ \A i, j \in 1 .. Len(starts) :
                  i # j => Encrypted(starts[i]) \cap Encrypted(starts[j]) = {}

\* A generator seeded with the counter 2^128 - 20 made two refills, the second
\* on the counter values 2^128 - 4 .. 2^128 - 1, 0 .. 3.
C29_Witness ==
    \E g \in GeneratorIds :
        /\ Len(generators[g].starts) = 2
        /\ generators[g].starts[1] = U128Max(12)
        /\ generators[g].starts[2] = U128Max(4)
        /\ U128(3) \in Encrypted(generators[g].starts[2])

----------------------------------------------------------------------------
(* The multisums on lists of different counts.                             *)

\* C22: update_with_wrapping_add_binary_multisum and
\* update_with_wrapping_sub_binary_multisum called with a coefficient list and
\* a binary list of different numbers of polynomials signal a dimension
\* mismatch; they do not return having summed over the first pairs.
C22_CountMismatchIsSignalled ==
    (/\ LastCalled({"update_with_wrapping_add_binary_multisum",
                    "update_with_wrapping_sub_binary_multisum"})
     /\ PolynomialCount(coef_list) # PolynomialCount(bin_list))
        => panic = DimensionMismatch

----------------------------------------------------------------------------
(* Decryption and its output.                                              *)

\* Other values the output list of a decryption could have held.
OtherOutputs(len) == WordSamples(len) \cup {Allocate(c, len) : c \in Fills}

\* What the decryption `op` of the ciphertext list under the key writes in an
\* output list that held `encoded`.
Decrypted(op, encoded) ==
    IF op = "decrypt_glwe"
    THEN DecryptGlweChecked(sk, encoded, GetCiphertext(ciphertext, 0),
                            ciphertext.poly_size).tensor
    ELSE DecryptGlweListChecked(sk, encoded, ciphertext).tensor

\* C23: a call of decrypt_glwe or decrypt_glwe_list that returns leaves the key
\* and the ciphertext as they were, and leaves in the output the plaintexts it
\* would have left whatever the output held before.
C23_DecryptOverwritesOutput ==
    [][(/\ hist' # hist
        /\ Last(hist').op \in {"decrypt_glwe", "decrypt_glwe_list"}
        /\ panic' = "")
          => /\ sk' = sk
             /\ ciphertext' = ciphertext
             /\ \A other \in OtherOutputs(Len(decryptions)) :
                   Decrypted(Last(hist').op, other) = decryptions']_vars

\* decrypt_glwe_list returned, after an encryption, on an output list that
\* held 250 everywhere, and changed it.
C23_Witness ==
    /\ LastCalled({"decrypt_glwe_list"})
    /\ Len(hist) = 2
    /\ panic = ""
    /\ CiphertextCount(ciphertext) >= 1
    /\ Last(hist).pre = Allocate(250, Len(decryptions))
    /\ decryptions # Last(hist).pre

\* The ciphertext list is empty, of the GLWE dimension of the key.
EmptyListForKey ==
    /\ CiphertextCount(ciphertext) = 0
    /\ GlweDimension(ciphertext) = KeySize(sk)
    /\ sk.poly_size >= 1

\* C24: encrypt_glwe_list and decrypt_glwe_list on a list of no ciphertext and
\* an empty plaintext list, under a key of the dimension of the list, pass
\* their checks and return, draw no random value and leave both lists empty.
C24_EmptyListsStayEmpty ==
    /\ (/\ LastCalled({"encrypt_glwe_list"})
        /\ EmptyListForKey
        /\ plaintexts = <<>>)
          => /\ panic = ""
             /\ Last(hist).arg = 0
             /\ noise = <<>>
             /\ ciphertext.tensor = <<>>
    /\ (/\ LastCalled({"decrypt_glwe_list"})
        /\ EmptyListForKey
        /\ Last(hist).pre = <<>>)
          => /\ panic = ""
             /\ decryptions = <<>>
             /\ ciphertext.tensor = <<>>

\* Both list calls were made on empty lists, under a key of two polynomials.
C24_Witness ==
    /\ Len(hist) = 2
    /\ hist[1].op = "encrypt_glwe_list"
    /\ hist[2].op = "decrypt_glwe_list"
    /\ EmptyListForKey
    /\ KeySize(sk) = 2
    /\ plaintexts = <<>>
    /\ decryptions = <<>>
    /\ panic = ""

\* The gadget value of a level whose exponent BITS - base_log * (level + 1) is
\* not negative.
GadgetDelta(mu, base_log, level) ==
    (mu * 2 ^ (BITS - base_log * (level + 1))) % Modulus

\* The constant polynomial c of size n.
ConstantPolynomial(c, n) == [i \in 1 .. n |-> IF i = 1 THEN c ELSE 0]

\* What the gadget relation gives for the row `row` of the level `level`: the
\* noise of the row plus delta on the constant coefficient for the last row,
\* the noise minus delta times the row-th polynomial of the key for another.
GadgetRelation(level, row) ==
    LET n == ggsw.poly_size
        delta == GadgetDelta(hist[1].arg.mu, ggsw.decomp_base_log, level)
        E == GetSublist(noise, n, level * ggsw.rlwe_size + row)
        by_key == IF row = ggsw.rlwe_size - 1 THEN ConstantPolynomial(delta, n)
                  ELSE [i \in 1 .. n |->
                           WrappingNeg(NegacyclicProduct(
                               ConstantPolynomial(delta, n),
                               Lift(GetPolynomial(AsPolynomialList(sk), row)))[i])]
    IN  [i \in 1 .. n |-> WrappingAdd(E[i], by_key[i])]

\* C25: a row of a GGSW ciphertext that encrypt_constant_ggsw produced
\* decrypts under the same key to the gadget relation, for every level whose
\* delta = mu * 2^(BITS - B*(level+1)) is defined: the last row gives the
\* noise of the row with delta added on the constant coefficient, a row
\* r < k gives the noise minus delta times the r-th polynomial of the key.
C25_RowsDecryptToGadgetRelation ==
    (/\ Len(hist) = 2
     /\ Last(hist).op = "decrypt_glwe"
     /\ ggsw.decomp_base_log * (Last(hist).arg.level + 1) <= BITS)
        => /\ panic = ""
           /\ decryptions = GadgetRelation(Last(hist).arg.level, Last(hist).arg.row)

\* A row above the last one, of the second level, with a delta that is not
\* zero and a key polynomial that is not: the decryption is not the noise.
C25_Witness ==
    /\ Len(hist) = 2
    /\ Last(hist).op = "decrypt_glwe"
    /\ Last(hist).arg.level = 1
    /\ Last(hist).arg.row < ggsw.rlwe_size - 1
    /\ ggsw.decomp_base_log * 2 <= BITS
    /\ GadgetDelta(hist[1].arg.mu, ggsw.decomp_base_log, 1) # 0
    /\ ggsw.poly_size >= 2
    /\ decryptions # GetSublist(noise, ggsw.poly_size,
                                ggsw.rlwe_size + Last(hist).arg.row)
    /\ decryptions = GadgetRelation(1, Last(hist).arg.row)

\* The keys of the shape of sk.
KeysOfShape(key) ==
    {PolynomialList(t, key.poly_size) : t \in BoolSamples(Len(key.tensor))}

\* The ciphertext as it was before the last call.
GgswBefore == [ggsw EXCEPT !.tensor = Last(hist).pre]

\* C26: what trivial_encrypt_constant_ggsw leaves does not depend on the bits
\* of the key: under every key of the same shape, with the same plaintext,
\* parameters and noise drawn, the call ends the same way with the same
\* coefficients in the ciphertext.
C26_TrivialOutputIndependentOfKeyBits ==
    LastCalled({"trivial_encrypt_constant_ggsw"})
        => \A other \in KeysOfShape(sk) :
              LET out == TrivialEncryptConstantGgsw(other, GgswBefore,
                                                    Last(hist).arg.mu, noise)
              IN  /\ out.tensor = ggsw.tensor
                  /\ out.panic = panic

\* A call that returned, under a key of two polynomials or more that is not
\* the only one of its shape, with a plaintext that is not zero.
C26_Witness ==
    /\ LastCalled({"trivial_encrypt_constant_ggsw"})
    /\ panic = ""
    /\ KeySize(sk) >= 2
    /\ Last(hist).arg.mu # 0
    /\ ggsw.tensor # Last(hist).pre
    /\ \E other \in KeysOfShape(sk) :
          /\ other # sk
          /\ TrivialEncryptConstantGgsw(other, GgswBefore, Last(hist).arg.mu,
                                        noise).tensor = ggsw.tensor

\* The decomposition parameters are out of domain: the last level needs more
\* bits than the word has.
OutOfDomain(g) == g.decomp_base_log * DecompositionLevelCount(g) > BITS

\* C27: with decomposition parameters out of domain (B * l > q) both GGSW
\* encryptions reject the call before any coefficient of the ciphertext is
\* written: the call does not return normally and the ciphertext is as it
\* was.
C27_OutOfDomainRejectedBeforeWriting ==
    (/\ LastCalled({"encrypt_constant_ggsw", "trivial_encrypt_constant_ggsw"})
     /\ GgswDimsHold(sk, ggsw)
     /\ OutOfDomain(ggsw))
        => /\ panic # ""
           /\ ggsw.tensor = Last(hist).pre

\* C30: monomial multiplications compose additively: multiplying by X^a and
\* then by X^b leaves the polynomial a single multiplication by X^(a+b) of
\* the first polynomial gives, whatever the cycles a, b and a + b make.
C30_MonomialMulsComposeAdditively ==
    (/\ Len(hist) = 2
     /\ hist[1].op = "monic_monomial_mul"
     /\ hist[2].op = "monic_monomial_mul")
        => poly = UpdateWithWrappingMonicMonomialMul(hist[1].pre,
                                                     hist[1].arg + hist[2].arg)

\* X^2 then X^5 on 1 + 2X + 3X^2: the remainders add up to a cycle more and
\* the sum makes two full cycles; X^7 = X, so the result is -3 + X + 2X^2.
C30_Witness ==
    /\ Len(hist) = 2
    /\ hist[1].op = "monic_monomial_mul"
    /\ hist[2].op = "monic_monomial_mul"
    /\ hist[1].pre = <<1, 2, 3>>
    /\ hist[1].arg = 2
    /\ hist[2].arg = 5
    /\ hist[1].arg + hist[2].arg >= 2 * Len(poly)
    /\ poly = <<Modulus - 3, 1, 2>>

=========================================================================
